---- MODULE Spec2Model ----
(***************************************************************************)
(* Scan orchestration of the QRScanner component, in its revisions:        *)
(*   "cooldown"  src/unnamed/part_001 (session set + 5000 ms cooldown,     *)
(*               one requestAnimationFrame scan loop, ZXing canvas decode) *)
(*   "jsqrFirst" src/src/components/QRScanner.tsx, lines 567-935, and      *)
(*   "zbar"      src/unnamed/part_000, lines 1-430 (no session set: the    *)
(*               scannedCodes state, capped at 10, is the dedup set)       *)
(*   "jsqrInterval" src/src/components/QRScanner.tsx, lines 1-566 (session *)
(*               set, no cooldown, jsQR interval and ZXing video callback) *)
(* and the attendance script src/attendance_automation.gs.                 *)
(* The component is a React function component.  A render captures the     *)
(* state values in closures (useCallback / useEffect); an effect whose     *)
(* dependencies changed runs its cleanup and then its body again.  Every   *)
(* await is a suspension point at which any other handler may run.  React  *)
(* commits a pending render before the next animation frame, timer or user *)
(* event; the continuation of an await under way may run before it.        *)
(***************************************************************************)
EXTENDS Integers, Sequences, FiniteSets, TLC

VARIABLES
    rev,            \* which revision of the component is mounted
    now,            \* wall clock in ms (Date.now / performance.now)
    mounted,        \* the component is mounted (Home.isScanning)
    state,          \* useState values of the component
    ref,            \* useRef values of the component
    rendered,       \* what the last committed render captured
    eff,            \* runs of the camera effect: their locals and loops
    uploads,        \* image uploads in progress (handleFileUpload closures)
    liveStreams,    \* MediaStreams whose tracks have not been stopped
    sink,           \* the calls made to onScanSuccess, in order
    scannedResults, \* Home.scannedResults
    sessionNo,      \* how many times a non-empty session set was emptied
    presses,        \* button presses so far
    last,           \* the latest call of processScannedCode and how it ended,
                    \* and when the latest decode of a camera frame started
    timers,         \* setInterval timers and video callbacks never stopped
    gas             \* attendance_automation.gs: the clock, the spreadsheet and
                    \* the range last asked of the calendar; qrWorker.ts: the
                    \* calls of the handler and the replies; <<>> in the scanner

vars == <<rev, now, mounted, state, ref, rendered, eff, uploads,
          liveStreams, sink, scannedResults, sessionNo, presses, last, timers, gas>>

----------------------------------------------------------------------------
(* Bounds of the exploration *)
NumCodes == 2
MaxTime == 6000
StartTime == 1000
MaxEffects == 2
MaxStreams == 2
MaxUploads == 1
MaxSink == 2
MaxPresses == 1
CameraStep == 1000
MaxSinkCamera == 3

(* Program constants *)
CooldownMs == 5000
HistoryMax == 12
scanInterval == 800
frameInterval == 3
ResultsMax == 10

CodeNames == <<"A", "B", "C", "D", "E", "F", "G", "H", "I", "J", "K", "L", "M">>
Codes == {CodeNames[i] : i \in 1..NumCodes}
TimeStep == 2500

Range(s) == {s[i] : i \in 1..Len(s)}

\* Array.prototype.slice(-n)
SliceLast(s, n) == IF Len(s) <= n THEN s ELSE SubSeq(s, Len(s) - n + 1, Len(s))
\* Array.prototype.slice(0, n)
SliceFirst(s, n) == IF Len(s) <= n THEN s ELSE SubSeq(s, 1, n)

----------------------------------------------------------------------------
(* The parent: Home.handleScanSuccess *)
\* line 15 misread, with the new text put at the end of the list
handleScanSuccess_Append(decodedText, prev) == SliceFirst(prev \o <<decodedText>>, ResultsMax)
handleScanSuccess(decodedText, prev) == SliceFirst(<<decodedText>> \o prev, ResultsMax)

----------------------------------------------------------------------------
(* src/unnamed/part_001: the cooldown revision *)

DeadEffect == [setup |-> "none", video |-> FALSE, isInitialized |-> FALSE, loop |-> "none",
               lastScannedCode |-> "", lastScanTimestamp |-> 0, now |-> 0,
               scannedCodes |-> <<>>]

\* An effect run with nothing pending can never act again: forget its locals.
Settle(e) == IF e.setup \in {"none", "done"} /\ e.loop = "none" THEN DeadEffect ELSE e

\* videoRef.current / canvasRef.current: the elements exist while the
\* component is mounted and the committed render shows no camera error.
DomPresent == mounted /\ rendered.cameraError = ""

\* setState on an unmounted component is dropped by React.
SetState(s2) == IF mounted THEN s2 ELSE state

\* line 87 misread, with the comparison turned round
InCooldown_Inverted(code, cl) == code = cl.lastScannedCode /\ now - cl.lastScanTimestamp > CooldownMs
\* processScannedCode, lines 87-93: the two rejections.
InCooldown(code, cl) == code = cl.lastScannedCode /\ now - cl.lastScanTimestamp < CooldownMs
\* processScannedCode misread, without the session-set test of lines 91-93
Accepts_NoSessionCheck(code, cl, r) ==
    /\ ~r.processingCodeRef
    /\ ~InCooldown(code, cl)
Accepts(code, cl, r) ==
    /\ ~r.processingCodeRef
    /\ ~InCooldown(code, cl)
    /\ code \notin r.sessionScannedCodesRef

\* processScannedCode misread, without the finally block of lines 105-107
processScannedCode_finally_Absent(r) == r
\* processScannedCode, lines 105-107: the finally block, run on every way
\* out of the try block of lines 84-104
processScannedCode_finally(r) == [r EXCEPT !.processingCodeRef = FALSE]
\* processScannedCode, lines 82-107: the return of line 82 leaves the refs as
\* they are; past it the guard is taken (line 83), the try block returns
\* early (lines 87-93) or adds the payload (lines 95-96), and the finally
\* block gives the guard back
processScannedCode_ref(code, cl, r) ==
    IF r.processingCodeRef
    THEN r
    ELSE LET r1 == [r EXCEPT !.processingCodeRef = TRUE]
         IN processScannedCode_finally(
                IF Accepts(code, cl, r)
                THEN [r1 EXCEPT !.sessionScannedCodesRef = @ \cup {code}]
                ELSE r1)
processScannedCode_state(code, cl, r, s) ==
    IF Accepts(code, cl, r)
    THEN [s EXCEPT !.lastScannedCode = code,
                   !.lastScanTimestamp = now,
                   !.scannedCodes = IF code \in Range(@) THEN @
                                    ELSE SliceLast(Append(@, code), HistoryMax)]
    ELSE s
\* processScannedCode, line 103
processScannedCode_sink(code, cl, r) ==
    IF Accepts(code, cl, r)
    THEN Append(sink, [code |-> code, at |-> now, session |-> sessionNo,
                       lastScannedCode |-> cl.lastScannedCode,
                       lastScanTimestamp |-> cl.lastScanTimestamp])
    ELSE sink
processScannedCode_results(code, cl, r) ==
    IF Accepts(code, cl, r) THEN handleScanSuccess(code, scannedResults) ELSE scannedResults

\* how a call of processScannedCode ends, lines 82-103
Verdict(code, cl, r) ==
    IF r.processingCodeRef THEN "busy"
    ELSE IF InCooldown(code, cl) THEN "cooldown"
    ELSE IF code \in r.sessionScannedCodesRef THEN "duplicate"
    ELSE "accepted"

\* stopCamera, lines 141-159
stopCamera_ref(r) ==
    [r EXCEPT !.streamRef = 0,
              !.sessionScannedCodesRef = IF r.streamRef # 0 THEN {} ELSE @,
              !.animationFrameRef = 0,
              !.isScanningRef = FALSE,
              !.processingCodeRef = FALSE]
stopCamera_streams(r, live) == IF r.streamRef # 0 THEN live \ {r.streamRef} ELSE live
\* cancelAnimationFrame(animationFrameRef.current): the request is dropped
\* if it has not fired yet.
stopCamera_eff(r, e) ==
    IF r.animationFrameRef # 0 /\ e[r.animationFrameRef].loop = "scheduled"
    THEN [e EXCEPT ![r.animationFrameRef] = Settle([@ EXCEPT !.loop = "none"])]
    ELSE e

\* resetAllData, lines 51-72
resetAllData_state(s) ==
    [s EXCEPT !.scannedCodes = <<>>, !.lastScannedCode = "", !.lastScanTimestamp = 0]
resetAllData_ref(r) ==
    [r EXCEPT !.sessionScannedCodesRef = {},
              !.frameCountRef = 0,
              !.lastScanTimeRef = 0,
              !.processingCodeRef = FALSE,
              !.isScanningRef = FALSE]

\* The closure values a render hands to processScannedCode.
Closure(rd) == [lastScannedCode |-> rd.lastScannedCode, lastScanTimestamp |-> rd.lastScanTimestamp]

\* The dependencies of processScannedCode: onScanSuccess is a new function
\* on every render of Home, and Home renders after every delivery.
DepsChanged ==
    \/ rendered.lastScannedCode # state.lastScannedCode
    \/ rendered.lastScanTimestamp # state.lastScanTimestamp
    \/ rendered.onScanSuccess # Len(sink)
RenderNeeded ==
    mounted /\ (\/ DepsChanged
                \/ rendered.cameraError # state.cameraError
                \/ rendered.isInitializing # state.isInitializing)

cur == rendered.effect

\* The session set was emptied after something had been accepted into it.
Ghost == sessionNo' = IF ref.sessionScannedCodesRef # {} /\ ref'.sessionScannedCodesRef = {}
                      THEN sessionNo + 1 ELSE sessionNo

\* the useState initial values, lines 12-17
InitState == [scannedCodes |-> <<>>, cameraError |-> "", isInitializing |-> TRUE,
              lastScannedCode |-> "", lastScanTimestamp |-> 0]
\* the first render and the first run of the camera effect
InitRendered == [lastScannedCode |-> "", lastScanTimestamp |-> 0, cameraError |-> "",
                 onScanSuccess |-> 0, effect |-> 1,
                 scannedCodes |-> <<>>, isInitializing |-> TRUE]
\* the useRef initial values, lines 18-32
InitRef == [sessionScannedCodesRef |-> {}, processingCodeRef |-> FALSE,
            lastScanTimeRef |-> 0, frameCountRef |-> 0, isScanningRef |-> FALSE,
            streamRef |-> 0, animationFrameRef |-> 0,
            codeReaderRef |-> FALSE, canvasContextRef |-> FALSE,
            onDetected |-> [registered |-> FALSE, scannedCodes |-> <<>>]]

InitCooldown ==
    /\ rev = "cooldown"
    /\ now = StartTime
    /\ mounted = TRUE
    /\ state = InitState
    /\ ref = InitRef
    /\ rendered = InitRendered
    /\ eff = [i \in 1..MaxEffects |->
                IF i = 1 THEN [DeadEffect EXCEPT !.setup = "enumerateDevices"] ELSE DeadEffect]
    /\ uploads = [u \in 1..MaxUploads |-> [pc |-> "idle", lastScannedCode |-> "", lastScanTimestamp |-> 0]]
    /\ liveStreams = {}
    /\ sink = <<>>
    /\ scannedResults = <<>>
    /\ sessionNo = 0
    /\ presses = 0
    /\ last = [code |-> "", verdict |-> "none", attempt |-> 0]
    /\ timers = {}
    /\ gas = <<>>

\* Time passes (Date.now, line 297; line 86).
Tick(step) ==
    /\ rev = "cooldown"
    /\ ~RenderNeeded
    /\ now + step <= MaxTime
    /\ now' = now + step
    /\ UNCHANGED <<gas, rev, timers, mounted, state, ref, rendered, eff, uploads, liveStreams,
                   sink, scannedResults, sessionNo, presses, last>>

\* The cleanup of the camera effect, lines 332-335
Cleanup(r, e) ==
    LET e1 == stopCamera_eff(r, e)
    IN [e1 EXCEPT ![cur] = Settle([@ EXCEPT !.isInitialized = FALSE])]
FreeSlots(e) == {i \in 1..MaxEffects : e[i] = DeadEffect}
Lowest(S) == CHOOSE i \in S : \A j \in S : i <= j

\* No render is pending.  React commits a pending render before the next
\* animation frame, timer or user event; only the continuation of an await
\* that was already under way may run before it.
Running == ~RenderNeeded

\* Array.prototype.reverse
Reverse(s) == [k \in 1..Len(s) |-> s[Len(s) + 1 - k]]
\* the history list of the JSX, line 570, inside the branch without
\* cameraError (line 513): scannedCodes.reverse() reverses the array held in
\* the state, in place
RenderHistory(st) == IF st.cameraError = "" THEN Reverse(st.scannedCodes) ELSE st.scannedCodes

FreeStreams == (1..MaxStreams) \ (liveStreams \cup {ref.streamRef})

\* setupCamera, lines 191-199 and 202-236 up to the await of getUserMedia
\* (initializeCamera, lines 112-119)
EnumerateDevicesReturns(i, outcome) ==
    /\ rev = "cooldown"
    /\ eff[i].setup = "enumerateDevices"
    /\ IF outcome = "ok"
       THEN /\ ref' = [ref EXCEPT !.codeReaderRef = TRUE, !.sessionScannedCodesRef = {}]
            /\ eff' = [eff EXCEPT ![i].setup = "getUserMedia"]
            /\ UNCHANGED state
       ELSE /\ ref' = [ref EXCEPT !.codeReaderRef = (outcome = "unsupported") \/ @]
            /\ state' = SetState([state EXCEPT !.cameraError = outcome, !.isInitializing = FALSE])
            /\ eff' = [eff EXCEPT ![i] = Settle([@ EXCEPT !.setup = "done"])]
    /\ Ghost
    /\ UNCHANGED <<gas, rev, timers, now, mounted, rendered, uploads, liveStreams, sink, scannedResults, presses, last>>

\* what follows `await setupCamera()` once isInitialized is true:
\* setIsInitializing(false) and the first requestAnimationFrame(scanCode)
StartLoop(i, e, r) ==
    /\ eff' = [e EXCEPT ![i].setup = "done", ![i].isInitialized = TRUE, ![i].loop = "scheduled"]
    /\ ref' = [r EXCEPT !.animationFrameRef = i]
    /\ state' = SetState([state EXCEPT !.isInitializing = FALSE])

\* initializeCamera, lines 119-137, and setupCamera, lines 232-244
GetUserMediaReturns(i, ok) ==
    /\ rev = "cooldown"
    /\ eff[i].setup = "getUserMedia"
    /\ IF ok
       THEN /\ FreeStreams # {}
            /\ LET stream == Lowest(FreeStreams) IN
               /\ liveStreams' = liveStreams \cup {stream}
               /\ IF DomPresent
                  THEN /\ eff' = [eff EXCEPT ![i].setup = "play", ![i].video = TRUE]
                       /\ ref' = [ref EXCEPT !.streamRef = stream]
                       /\ UNCHANGED state
                  ELSE StartLoop(i, eff, [ref EXCEPT !.streamRef = stream])
       ELSE /\ state' = SetState([state EXCEPT !.cameraError = "camera", !.isInitializing = FALSE])
            /\ eff' = [eff EXCEPT ![i] = Settle([@ EXCEPT !.setup = "done"])]
            /\ UNCHANGED <<ref, liveStreams>>
    /\ Ghost
    /\ UNCHANGED <<gas, rev, timers, now, mounted, rendered, uploads, sink, scannedResults, presses, last>>

\* setupCamera, lines 244-269, and the then-callback, lines 326-330
VideoPlayReturns(i, ok) ==
    /\ rev = "cooldown"
    /\ eff[i].setup = "play"
    /\ IF ok
       THEN StartLoop(i, eff, [ref EXCEPT !.canvasContextRef = @ \/ DomPresent])
       ELSE /\ state' = SetState([state EXCEPT !.cameraError = "zxing", !.isInitializing = FALSE])
            /\ eff' = [eff EXCEPT ![i] = Settle([@ EXCEPT !.setup = "done"])]
            /\ UNCHANGED ref
    /\ Ghost
    /\ UNCHANGED <<gas, rev, timers, now, mounted, rendered, uploads, liveStreams, sink, scannedResults, presses, last>>

\* scanCode, line 278: the tick does nothing but reschedule itself
ScanGuard(i) ==
    \/ ~eff[i].video
    \/ ~DomPresent
    \/ ~ref.codeReaderRef
    \/ ~ref.canvasContextRef
    \/ ref.isScanningRef

\* scanCode, line 305
DecodeDue(count) ==
    /\ count % frameInterval = 0
    /\ now - ref.lastScanTimeRef >= scanInterval

\* scanCode, lines 277-306 and 323: an animation frame request fires
ScanTick(i) ==
    /\ rev = "cooldown"
    /\ Running
    /\ eff[i].loop = "scheduled"
    /\ IF ScanGuard(i)
       THEN /\ ref' = [ref EXCEPT !.animationFrameRef = i]
            /\ UNCHANGED eff
       ELSE LET count == (ref.frameCountRef + 1) % frameInterval IN
            IF DecodeDue(count)
            THEN /\ ref' = [ref EXCEPT !.frameCountRef = count, !.isScanningRef = TRUE]
                 /\ eff' = [eff EXCEPT ![i].loop = "decoding", ![i].now = now]
            ELSE /\ ref' = [ref EXCEPT !.frameCountRef = count, !.animationFrameRef = i]
                 /\ UNCHANGED eff
    /\ last' = [last EXCEPT !.attempt = IF ~ScanGuard(i) /\ DecodeDue((ref.frameCountRef + 1) % frameInterval)
                                        THEN now ELSE @]
    /\ Ghost
    /\ UNCHANGED <<gas, rev, timers, now, mounted, state, rendered, uploads, liveStreams, sink, scannedResults, presses>>

\* lines 318-320 misread, without the finally block
scanCode_finally_Absent(r, i) == [r EXCEPT !.animationFrameRef = i]
\* scanCode, lines 318-323: the finally block and the next request
scanCode_finally(r, i) == [r EXCEPT !.isScanningRef = FALSE, !.animationFrameRef = i]

\* line 309 misread, without the test of the result
scanCode_found_Always(result) == TRUE
\* scanCode, line 309: if (result)
scanCode_found(result) == result \in Codes

\* scanCode, lines 308-323: decodeFromCanvas settles
DecodeReturns(i, result, cap) ==
    /\ rev = "cooldown"
    /\ eff[i].loop = "decoding"
    /\ Len(sink) < cap
    /\ LET cl == Closure(eff[i])
           r1 == IF scanCode_found(result) THEN processScannedCode_ref(result, cl, ref) ELSE ref
           r2 == IF result = "throws" THEN r1 ELSE [r1 EXCEPT !.lastScanTimeRef = eff[i].now]
       IN /\ ref' = scanCode_finally(r2, i)
          /\ state' = IF scanCode_found(result)
                      THEN SetState(processScannedCode_state(result, cl, ref, state))
                      ELSE state
          /\ sink' = IF scanCode_found(result) THEN processScannedCode_sink(result, cl, ref) ELSE sink
          /\ scannedResults' = IF scanCode_found(result)
                               THEN processScannedCode_results(result, cl, ref)
                               ELSE scannedResults
          /\ last' = IF scanCode_found(result)
                     THEN [last EXCEPT !.code = result, !.verdict = Verdict(result, cl, ref)]
                     ELSE IF result = "throws"
                     THEN [last EXCEPT !.code = "", !.verdict = "threw"]
                     ELSE last
    /\ eff' = [eff EXCEPT ![i].loop = "scheduled", ![i].now = 0]
    /\ Ghost
    /\ UNCHANGED <<gas, rev, timers, now, mounted, rendered, uploads, liveStreams, presses>>

\* React commits a render.  When the dependencies of the camera effect
\* (lines 336, 108) changed, its cleanup (lines 332-335) runs and the effect
\* body starts again: setupCamera up to the await of enumerateDevices
\* (lines 183-191).
Render ==
    /\ rev = "cooldown"
    /\ RenderNeeded
    /\ IF DepsChanged
       THEN /\ FreeSlots(Cleanup(ref, eff)) # {}
            /\ LET e2 == Cleanup(ref, eff)
                   n == Lowest(FreeSlots(e2))
               IN /\ eff' = [e2 EXCEPT ![n] = [DeadEffect EXCEPT
                                    !.setup = "enumerateDevices",
                                    !.lastScannedCode = state.lastScannedCode,
                                    !.lastScanTimestamp = state.lastScanTimestamp]]
                  /\ rendered' = [rendered EXCEPT
                                    !.lastScannedCode = state.lastScannedCode,
                                    !.lastScanTimestamp = state.lastScanTimestamp,
                                    !.cameraError = state.cameraError,
                                    !.isInitializing = state.isInitializing,
                                    !.onScanSuccess = Len(sink),
                                    !.effect = n]
            /\ ref' = [stopCamera_ref(ref) EXCEPT !.sessionScannedCodesRef = {}]
            /\ liveStreams' = stopCamera_streams(ref, liveStreams)
            /\ state' = [state EXCEPT !.isInitializing = TRUE, !.cameraError = "",
                                      !.scannedCodes = RenderHistory(state)]
       ELSE /\ rendered' = [rendered EXCEPT !.cameraError = state.cameraError,
                                            !.isInitializing = state.isInitializing]
            /\ state' = [state EXCEPT !.scannedCodes = RenderHistory(state)]
            /\ UNCHANGED <<eff, ref, liveStreams>>
    /\ Ghost
    /\ UNCHANGED <<gas, rev, timers, now, mounted, uploads, sink, scannedResults, presses, last>>

\* the 履歴をクリア button, lines 552-555
ClearHistory ==
    /\ rev = "cooldown"
    /\ Running
    /\ DomPresent
    /\ presses < MaxPresses
    /\ presses' = presses + 1
    /\ state' = [state EXCEPT !.scannedCodes = <<>>]
    /\ ref' = [ref EXCEPT !.sessionScannedCodesRef = {}]
    /\ Ghost
    /\ UNCHANGED <<gas, rev, timers, now, mounted, rendered, eff, uploads, liveStreams, sink, scannedResults, last>>

\* the メモリクリア button, line 561
ResetAllData ==
    /\ rev = "cooldown"
    /\ Running
    /\ DomPresent
    /\ presses < MaxPresses
    /\ presses' = presses + 1
    /\ state' = resetAllData_state(state)
    /\ ref' = resetAllData_ref(ref)
    /\ Ghost
    /\ UNCHANGED <<gas, rev, timers, now, mounted, rendered, eff, uploads, liveStreams, sink, scannedResults, last>>

DoneUpload == [pc |-> "done", lastScannedCode |-> "", lastScanTimestamp |-> 0]

\* handleFileUpload, lines 391-433 and 483: a file is chosen; the handler
\* of the committed render, with its processScannedCode, starts reading it
UploadFile(u) ==
    /\ rev = "cooldown"
    /\ Running
    /\ DomPresent
    /\ uploads[u].pc = "idle"
    /\ uploads' = [uploads EXCEPT ![u] = [pc |-> "loading",
                                          lastScannedCode |-> rendered.lastScannedCode,
                                          lastScanTimestamp |-> rendered.lastScanTimestamp]]
    /\ ref' = [ref EXCEPT !.codeReaderRef = TRUE]
    /\ Ghost
    /\ UNCHANGED <<gas, rev, timers, now, mounted, state, rendered, eff, liveStreams, sink, scannedResults, presses, last>>

\* reader.onload and img.onload, lines 434-464, up to the await of decodeFromImageUrl
UploadImageLoaded(u) ==
    /\ rev = "cooldown"
    /\ uploads[u].pc = "loading"
    /\ uploads' = [uploads EXCEPT ![u] = IF DomPresent /\ ref.codeReaderRef
                                         THEN [@ EXCEPT !.pc = "decoding"]
                                         ELSE DoneUpload]
    /\ UNCHANGED <<gas, rev, timers, now, mounted, state, ref, rendered, eff, liveStreams, sink,
                   scannedResults, sessionNo, presses, last>>

\* img.onload, lines 464-478: decodeFromImageUrl settles
UploadDecodeReturns(u, result) ==
    /\ rev = "cooldown"
    /\ uploads[u].pc = "decoding"
    /\ Len(sink) < MaxSink
    /\ LET cl == Closure(uploads[u]) IN
       IF result \in Codes
       THEN /\ ref' = processScannedCode_ref(result, cl, ref)
            /\ state' = SetState(processScannedCode_state(result, cl, ref, state))
            /\ sink' = processScannedCode_sink(result, cl, ref)
            /\ scannedResults' = processScannedCode_results(result, cl, ref)
            /\ last' = [last EXCEPT !.code = result, !.verdict = Verdict(result, cl, ref)]
       ELSE UNCHANGED <<ref, state, sink, scannedResults, last>>
    /\ uploads' = [uploads EXCEPT ![u] = DoneUpload]
    /\ Ghost
    /\ UNCHANGED <<gas, rev, timers, now, mounted, rendered, eff, liveStreams, presses>>

\* Home.handleStopScan unmounts the component: the cleanup of the unmount
\* effect (lines 163-176) and of the camera effect (lines 332-335) run
Unmount ==
    /\ rev = "cooldown"
    /\ Running
    /\ mounted
    /\ mounted' = FALSE
    /\ eff' = Cleanup(ref, eff)
    /\ ref' = [stopCamera_ref(ref) EXCEPT !.sessionScannedCodesRef = {}, !.codeReaderRef = FALSE]
    /\ liveStreams' = stopCamera_streams(ref, liveStreams)
    /\ state' = InitState          \* React discards the state of an unmounted component
    /\ rendered' = InitRendered
    /\ Ghost
    /\ UNCHANGED <<gas, rev, timers, now, uploads, sink, scannedResults, presses, last>>

Effects == 1..MaxEffects
Uploads == 1..MaxUploads

Init == InitCooldown

NextCooldown ==
    \/ Render
    \/ Tick(TimeStep)
    \/ \E i \in Effects : EnumerateDevicesReturns(i, "ok")
    \/ \E i \in Effects : GetUserMediaReturns(i, TRUE)
    \/ \E i \in Effects : VideoPlayReturns(i, TRUE)
    \/ \E i \in Effects : ScanTick(i)
    \/ \E i \in Effects, r \in Codes \cup {"null", "throws"} : DecodeReturns(i, r, MaxSink)
    \/ ClearHistory
    \/ ResetAllData
    \/ \E u \in Uploads : UploadFile(u)
    \/ \E u \in Uploads : UploadImageLoaded(u)
    \/ \E u \in Uploads, r \in Codes \cup {"throws"} : UploadDecodeReturns(u, r)
    \/ Unmount

Next == NextCooldown
Spec == Init /\ [][Next]_vars

\* The camera alone: nothing is uploaded, no button is pressed and the
\* component stays mounted.
NextCamera ==
    \/ Render
    \/ Tick(CameraStep)
    \/ \E i \in Effects : EnumerateDevicesReturns(i, "ok")
    \/ \E i \in Effects : GetUserMediaReturns(i, TRUE)
    \/ \E i \in Effects : VideoPlayReturns(i, TRUE)
    \/ \E i \in Effects : ScanTick(i)
    \/ \E i \in Effects, r \in Codes \cup {"null", "throws"} : DecodeReturns(i, r, MaxSinkCamera)

SpecCamera == Init /\ [][NextCamera]_vars

\* The same with the ways the camera can fail: no video device (lines
\* 194-198), no mediaDevices.getUserMedia (lines 111-114), getUserMedia
\* rejecting (lines 132-136), video.play() rejecting (lines 265-269).
Failures == {"nodevice", "unsupported"}
NextAcquire ==
    \/ NextCooldown
    \/ \E i \in Effects, o \in Failures : EnumerateDevicesReturns(i, o)
    \/ \E i \in Effects : GetUserMediaReturns(i, FALSE)
    \/ \E i \in Effects : VideoPlayReturns(i, FALSE)

SpecAcquire == Init /\ [][NextAcquire]_vars

----------------------------------------------------------------------------
(* The revisions that de-duplicate against the scannedCodes state:         *)
(*   "jsqrFirst"  src/src/components/QRScanner.tsx, lines 567-935          *)
(*   "zbar"       src/unnamed/part_000, lines 1-430                        *)
(* scannedCodes is a Set, held here in insertion order.  The scan effect   *)
(* and the Quagga handler read the Set of the render that created them.    *)

StateSetRevs == {"jsqrFirst", "zbar"}
MaxDistinct == 11
MaxSinkStateSet == 12
MaxRepeats == 1
SetCap == 10

\* new Set(array): each value once, at the place of its first occurrence
RECURSIVE SetOf(_)
SetOf(s) ==
    IF s = <<>> THEN <<>>
    ELSE LET init == SetOf(SubSeq(s, 1, Len(s) - 1))
         IN IF s[Len(s)] \in Range(init) THEN init ELSE Append(init, s[Len(s)])

\* the updater handed to setScannedCodes:
\* prev => { arr = Array.from(prev); arr.push(...newCodes); new Set(arr.slice(-10)) }
setScannedCodes(prev, newCodes) == SetOf(SliceLast(prev \o newCodes, SetCap))

\* the results that pass  !scannedCodes.has(code)  for the captured Set
NewCodes(results, scannedCodes) == SelectSeq(results, LAMBDA c : c \notin Range(scannedCodes))

\* What the camera is shown: a payload delivered before, or the next new one.
Seen == {sink[k].code : k \in 1..Len(sink)}
Shown == Seen \cup (IF Cardinality(Seen) < MaxDistinct
                    THEN {CodeNames[Cardinality(Seen) + 1]} ELSE {})
Frames == {<<>>} \cup {<<c>> : c \in Shown}
\* how many deliveries repeated an earlier one
Repeats == Len(sink) - Cardinality(Seen)

\* the accepting branch: setScannedCodes(...) and onScanSuccess(code) for each new code
forward_state(results, scannedCodes) ==
    IF NewCodes(results, scannedCodes) = <<>> THEN state
    ELSE SetState([state EXCEPT
            !.scannedCodes = setScannedCodes(@, NewCodes(results, scannedCodes))])
forward_sink(results, scannedCodes) ==
    sink \o [k \in 1..Len(NewCodes(results, scannedCodes)) |->
                [code |-> NewCodes(results, scannedCodes)[k], at |-> now, session |-> sessionNo,
                 lastScannedCode |-> "", lastScanTimestamp |-> 0]]
RECURSIVE forward_results(_, _)
forward_results(new, prev) ==
    IF new = <<>> THEN prev ELSE forward_results(Tail(new), handleScanSuccess(Head(new), prev))
Forwards(results, scannedCodes) ==
    /\ Len(sink) + Len(NewCodes(results, scannedCodes)) <= MaxSinkStateSet
    /\ NewCodes(results, scannedCodes) = <<>> \/ Repeats < MaxRepeats
    /\ state' = forward_state(results, scannedCodes)
    /\ sink' = forward_sink(results, scannedCodes)
    /\ scannedResults' = forward_results(NewCodes(results, scannedCodes), scannedResults)

InitStateSet ==
    /\ rev \in StateSetRevs
    /\ now = StartTime
    /\ mounted = TRUE
    /\ state = InitState
    /\ ref = InitRef
    /\ rendered = InitRendered
    /\ eff = [i \in 1..MaxEffects |-> DeadEffect]
    /\ uploads = [u \in 1..MaxUploads |-> [pc |-> "idle", lastScannedCode |-> "", lastScanTimestamp |-> 0]]
    /\ liveStreams = {}
    /\ sink = <<>>
    /\ scannedResults = <<>>
    /\ sessionNo = 0
    /\ presses = 0
    /\ last = [code |-> "", verdict |-> "none", attempt |-> 0]
    /\ timers = {}
    /\ gas = <<>>

\* the dependencies of the scan effect
StateSetDepsChanged ==
    \/ rendered.isInitializing # state.isInitializing
    \/ rendered.cameraError # state.cameraError
    \/ rendered.scannedCodes # state.scannedCodes
    \/ rendered.onScanSuccess # Len(sink)
\* the dependencies of the camera effect of part_000, line 212
CameraDepsChanged ==
    \/ rendered.scannedCodes # state.scannedCodes
    \/ rendered.onScanSuccess # Len(sink)

\* the cleanup of the scan effect: cancelAnimationFrame(animationFrameId)
CancelFrame(e) == IF e[cur].loop = "scheduled" THEN [e EXCEPT ![cur] = DeadEffect] ELSE e
\* scanCodes() was called by the effect body and has not yet reached its first await
Called == \E i \in 1..MaxEffects : eff[i].loop = "called"
\* no render is pending and no call of scanCodes is under way: the next
\* animation frame, Quagga frame or user event can be handled
StateSetRunning == rev \in StateSetRevs /\ ~Called /\ ~(mounted /\ StateSetDepsChanged)

\* initializeCamera runs to its end without an error:
\* QRScanner.tsx lines 682-707; part_000 lines 123-194, where the Quagga
\* handler of line 179 is registered with the Set its render captured
CameraReady ==
    /\ rev \in StateSetRevs
    /\ ~Called
    /\ mounted
    /\ state.isInitializing
    /\ state' = [state EXCEPT !.isInitializing = FALSE]
    /\ ref' = IF rev = "zbar"
              THEN [ref EXCEPT !.onDetected = [registered |-> TRUE,
                                               scannedCodes |-> rendered.scannedCodes]]
              ELSE ref
    /\ UNCHANGED <<gas, rev, timers, now, mounted, rendered, eff, uploads, liveStreams, sink,
                   scannedResults, sessionNo, presses, last>>

\* React commits a render.  The scan effect (QRScanner.tsx lines 727-830,
\* part_000 lines 214-324) is cleaned up and runs again, calling scanCodes()
\* if the render is neither initializing nor in error.  In part_000 the
\* camera effect (lines 122-212) runs again when scannedCodes or
\* onScanSuccess changed: Quagga.stop() and initializeCamera(), which starts
\* with setIsInitializing(true).
RenderStateSet ==
    /\ rev \in StateSetRevs
    /\ ~Called
    /\ mounted
    /\ StateSetDepsChanged
    /\ FreeSlots(CancelFrame(eff)) # {}
    /\ LET e1 == CancelFrame(eff)
           n == Lowest(FreeSlots(e1))
       IN /\ eff' = IF ~state.isInitializing /\ state.cameraError = ""
                    THEN [e1 EXCEPT ![n] = [DeadEffect EXCEPT
                                              !.loop = "called",
                                              !.scannedCodes = state.scannedCodes]]
                    ELSE e1
          /\ rendered' = [rendered EXCEPT !.isInitializing = state.isInitializing,
                                          !.cameraError = state.cameraError,
                                          !.scannedCodes = state.scannedCodes,
                                          !.onScanSuccess = Len(sink),
                                          !.effect = n]
    /\ state' = IF rev = "zbar" /\ CameraDepsChanged
                THEN [state EXCEPT !.isInitializing = TRUE, !.cameraError = ""]
                ELSE state
    /\ UNCHANGED <<gas, rev, timers, now, mounted, ref, uploads, liveStreams, sink, scannedResults,
                   sessionNo, presses, last>>

\* scanCodes up to its first await, or to its end if it does not await:
\* QRScanner.tsx lines 729-756 and 820; part_000 lines 218-257 and 312
ScanFrame(i, results) ==
    /\ rev \in StateSetRevs
    /\ eff[i].loop = "called" \/ (eff[i].loop = "scheduled" /\ StateSetRunning)
    /\ IF ~mounted
       THEN /\ results = <<>>
            /\ eff' = [eff EXCEPT ![i].loop = "scheduled"]
            /\ UNCHANGED <<state, sink, scannedResults>>
       ELSE IF rev = "jsqrFirst" /\ results # <<>>
       THEN /\ Forwards(results, eff[i].scannedCodes)
            /\ eff' = [eff EXCEPT ![i].loop = "scheduled"]
       ELSE /\ results = <<>>
            /\ eff' = [eff EXCEPT ![i].loop = "decoding"]
            /\ UNCHANGED <<state, sink, scannedResults>>
    /\ UNCHANGED <<gas, rev, timers, now, mounted, ref, rendered, uploads, liveStreams,
                   sessionNo, presses, last>>

\* scanCodes after its await: decodeFromImage settled (QRScanner.tsx lines
\* 757-771 and 820), scanImageData settled and jsQR tried if zbar gave
\* nothing new (part_000 lines 257-293 and 312)
ScanReturns(i, results) ==
    /\ rev \in StateSetRevs
    /\ ~Called
    /\ eff[i].loop = "decoding"
    /\ Forwards(results, eff[i].scannedCodes)
    /\ eff' = [eff EXCEPT ![i].loop = "scheduled"]
    /\ UNCHANGED <<gas, rev, timers, now, mounted, ref, rendered, uploads, liveStreams,
                   sessionNo, presses, last>>

\* part_000 lines 179-190: the handler given to Quagga.onDetected
QuaggaDetected(code) ==
    /\ StateSetRunning
    /\ rev = "zbar"
    /\ mounted
    /\ ~state.isInitializing
    /\ ref.onDetected.registered
    /\ Forwards(<<code>>, ref.onDetected.scannedCodes)
    /\ UNCHANGED <<gas, rev, timers, now, mounted, ref, rendered, eff, uploads, liveStreams,
                   sessionNo, presses, last>>

\* the 履歴をクリア button: QRScanner.tsx line 908, part_000 line 402
ClearHistoryStateSet ==
    /\ StateSetRunning
    /\ mounted
    /\ presses < MaxPresses
    /\ presses' = presses + 1
    /\ sessionNo' = sessionNo + 1
    /\ state' = [state EXCEPT !.scannedCodes = <<>>]
    /\ UNCHANGED <<gas, rev, timers, now, mounted, ref, rendered, eff, uploads, liveStreams, sink,
                   scannedResults, last>>

\* Home.handleStopScan unmounts the component: the cleanup of the scan
\* effect runs (QRScanner.tsx lines 825-829, part_000 lines 319-323)
UnmountStateSet ==
    /\ StateSetRunning
    /\ mounted
    /\ mounted' = FALSE
    /\ eff' = CancelFrame(eff)
    /\ state' = InitState
    /\ rendered' = InitRendered
    /\ ref' = InitRef
    /\ UNCHANGED <<gas, rev, timers, now, uploads, liveStreams, sink, scannedResults,
                   sessionNo, presses, last>>

NextStateSet ==
    \/ CameraReady
    \/ RenderStateSet
    \/ \E i \in Effects, f \in Frames : ScanFrame(i, f)
    \/ \E i \in Effects, f \in Frames : ScanReturns(i, f)
    \/ \E c \in Shown : QuaggaDetected(c)
    \/ ClearHistoryStateSet
    \/ UnmountStateSet

SpecStateSet == InitStateSet /\ [][NextStateSet]_vars

\* Home.handleStartScan after handleStopScan, page.tsx lines 18-20 and 33:
\* QRScanner is mounted again with Home's present handleScanSuccess, and
\* Home keeps its scannedResults
handleStartScan ==
    /\ rev \in StateSetRevs
    /\ ~mounted
    /\ presses < MaxPresses
    /\ presses' = presses + 1
    /\ mounted' = TRUE
    /\ rendered' = [InitRendered EXCEPT !.onScanSuccess = Len(sink)]
    /\ UNCHANGED <<gas, rev, timers, now, state, ref, eff, uploads, liveStreams, sink,
                   scannedResults, sessionNo, last>>
NextHome ==
    \/ NextStateSet
    \/ handleStartScan
SpecHome == InitStateSet /\ [][NextHome]_vars

\* Decodes that return several symbols: zbar's scanImageData in the camera
\* loop of part_000 (line 257) and in handleFileUpload of both revisions
\* (part_000 line 85, QRScanner.tsx line 635).  A result list holds up to
\* MaxResults payloads, the same one twice or not, among those delivered
\* before and the next new ones.  last.results keeps the list of the
\* latest such decode.
MaxResults == 2
MaxSinkMulti == 3
MultiFrames ==
    LET n == Cardinality(Seen)
        shown == Seen \cup {CodeNames[k] : k \in (n + 1)..(n + MaxResults)}
    IN UNION {[1..k -> shown] : k \in 0..MaxResults}

\* misread of part_000 line 292, the new codes forwarded last first
forward_each_Reversed(new) ==
    sink \o [k \in 1..Len(new) |->
                [code |-> new[Len(new) + 1 - k], at |-> now, session |-> sessionNo,
                 lastScannedCode |-> "", lastScanTimestamp |-> 0]]
\* onScanSuccess(code) for each new code, in the order of newCodes:
\* part_000 lines 99 and 292, QRScanner.tsx line 649
forward_each(new) ==
    sink \o [k \in 1..Len(new) |->
                [code |-> new[k], at |-> now, session |-> sessionNo,
                 lastScannedCode |-> "", lastScanTimestamp |-> 0]]

\* scanCodes of part_000 after await scanImageData, lines 257-293: the
\* results not in the Set of the render are collected in newCodes, then
\* setScannedCodes once and onScanSuccess for each
ScanReturnsMulti(i, results) ==
    /\ rev = "zbar"
    /\ ~Called
    /\ eff[i].loop = "decoding"
    /\ Len(sink) < MaxSinkMulti
    /\ LET new == NewCodes(results, eff[i].scannedCodes)
       IN /\ state' = IF new = <<>> THEN state
                      ELSE SetState([state EXCEPT !.scannedCodes = setScannedCodes(@, new)])
          /\ sink' = forward_each(new)
          /\ scannedResults' = forward_results(new, scannedResults)
          /\ last' = [code |-> "", verdict |-> "results", attempt |-> 0, results |-> results]
    /\ eff' = [eff EXCEPT ![i].loop = "scheduled"]
    /\ UNCHANGED <<gas, rev, timers, now, mounted, ref, rendered, uploads, liveStreams,
                   sessionNo, presses>>

\* handleFileUpload when jsQR found nothing in the image, part_000 lines
\* 82-103 and QRScanner.tsx lines 631-660: for each zbar result not in the
\* Set of the render, setScannedCodes and onScanSuccess
UploadZbarReturns(results) ==
    /\ StateSetRunning
    /\ mounted
    /\ Len(sink) < MaxSinkMulti
    /\ LET new == NewCodes(results, rendered.scannedCodes)
           set[k \in 0..Len(new)] ==
               IF k = 0 THEN state.scannedCodes ELSE setScannedCodes(set[k - 1], <<new[k]>>)
       IN /\ new # <<>>
          /\ state' = SetState([state EXCEPT !.scannedCodes = set[Len(new)]])
          /\ sink' = forward_each(new)
          /\ scannedResults' = forward_results(new, scannedResults)
          /\ last' = [code |-> "", verdict |-> "results", attempt |-> 0, results |-> results]
    /\ UNCHANGED <<gas, rev, timers, now, mounted, ref, rendered, eff, uploads, liveStreams,
                   sessionNo, presses>>

NextMulti ==
    \/ CameraReady
    \/ RenderStateSet
    \/ \E i \in Effects, f \in Frames : Len(sink) < MaxSinkMulti /\ ScanFrame(i, f)
    \/ \E i \in Effects, f \in Frames :
          rev = "jsqrFirst" /\ Len(sink) < MaxSinkMulti /\ ScanReturns(i, f)
    \/ \E c \in Shown : Len(sink) < MaxSinkMulti /\ QuaggaDetected(c)
    \/ \E i \in Effects, f \in MultiFrames : ScanReturnsMulti(i, f)
    \/ \E f \in MultiFrames : UploadZbarReturns(f)
    \/ ClearHistoryStateSet
    \/ UnmountStateSet
SpecMulti == InitStateSet /\ [][NextMulti]_vars

----------------------------------------------------------------------------
(* The first revision of src/src/components/QRScanner.tsx, lines 1-566:    *)
(* "jsqrInterval".  It keeps the session set but no cooldown.  A run of    *)
(* the camera effect starts a setInterval(scanWithJsQR, 100) and a ZXing   *)
(* video callback; the function that would stop them (lines 216-222) is    *)
(* returned by scanCode and dropped, so both go on with the isScanning of  *)
(* the render that started them.  Every timer and callback with the same   *)
(* isScanning behaves alike, so they are kept as a set.  The stream that   *)
(* decodeFromVideoDevice opens inside the library is not modelled.         *)

PauseMs == 1000
LastCap == 5

\* src/unnamed/part_000, lines 431-999, has the same processScannedCode and
\* camera effect, with one more test in the setLastScannedCodes updater (line
\* 472), and another handleFileUpload: "jsqrIncludes".  Line numbers below
\* are those of QRScanner.tsx.
IntervalRevs == {"jsqrInterval", "jsqrIncludes"}
\* the revisions whose handleFileUpload is modelled attempt by attempt;
\* "zxingVideo" is src/unnamed/part_002
LadderRevs == {"jsqrInterval", "jsqrIncludes", "zxingVideo"}

InitStateInterval == [scannedCodes |-> <<>>, lastScannedCodes |-> <<>>, cameraError |-> "",
                      isInitializing |-> TRUE, isScanning |-> TRUE]
InitRefInterval == [sessionScannedCodesRef |-> {}, processingCodeRef |-> FALSE,
                    codeReaderRef |-> FALSE, scanTimeoutRef |-> 0, srcObject |-> 0]
InitRenderedInterval == [cameraError |-> "", onScanSuccess |-> 0, effect |-> 1,
                         isScanning |-> TRUE]
\* the locals of a run of the camera effect, lines 95-96
IdleRun == [setup |-> "none", video |-> FALSE, isScanning |-> TRUE]

InitIntervalOf(r) ==
    /\ rev = r
    /\ now = StartTime
    /\ mounted = TRUE
    /\ state = InitStateInterval
    /\ ref = InitRefInterval
    /\ rendered = InitRenderedInterval
    /\ eff = [i \in 1..MaxEffects |->
                IF i = 1 THEN [IdleRun EXCEPT !.setup = "enumerateDevices"] ELSE IdleRun]
    /\ uploads = [u \in 1..MaxUploads |-> [pc |-> "idle", lastScannedCode |-> "", lastScanTimestamp |-> 0]]
    /\ liveStreams = {}
    /\ sink = <<>>
    /\ scannedResults = <<>>
    /\ sessionNo = 0
    /\ presses = 0
    /\ last = [code |-> "", verdict |-> "none", attempt |-> 0]
    /\ timers = {}
    /\ gas = <<>>
InitInterval == InitIntervalOf("jsqrInterval")

\* the dependencies of the camera effect, line 255 (processScannedCode
\* changes with onScanSuccess, line 50)
IntervalDepsChanged ==
    \/ rendered.onScanSuccess # Len(sink)
    \/ rendered.isScanning # state.isScanning
IntervalRenderNeeded == mounted /\ (IntervalDepsChanged \/ rendered.cameraError # state.cameraError)
\* no render is pending: a timer, a video frame or a user event can be handled
IntervalRunning == rev \in IntervalRevs /\ ~IntervalRenderNeeded

\* the duplicate test: processScannedCode lines 28-34; inline at lines 342, 414
AcceptsInline(code, r) == code \notin r.sessionScannedCodesRef
AcceptsInterval(code, r) == ~r.processingCodeRef /\ AcceptsInline(code, r)

\* setScannedCodes updater, lines 36-40: add to the Set, keep the last 10
addScannedCode(prev, code) ==
    SliceLast(IF code \in Range(prev) THEN prev ELSE Append(prev, code), SetCap)

\* setLastScannedCodes updater, lines 41-44; part_000 lines 471-475 return
\* prev when it includes the code
addLastScannedCode(prev, code) ==
    IF rev = "jsqrIncludes" /\ code \in Range(prev)
    THEN prev
    ELSE SliceLast(Append(prev, code), LastCap)

\* pauseScanning, lines 53-61
pauseScanning_state(s) == [s EXCEPT !.isScanning = FALSE]
pauseScanning_ref(r) == [r EXCEPT !.scanTimeoutRef = now + PauseMs]

\* the accepting branch, lines 35-46 (346-358 and 418-429 in handleFileUpload),
\* or the return of lines 31-34 when the payload is in the session set;
\* pause tells whether the branch ends with pauseScanning()
ForwardIf(code, ok, pause) ==
    /\ ref' = IF ok
              THEN LET r == [ref EXCEPT !.sessionScannedCodesRef = @ \cup {code}]
                   IN IF pause THEN pauseScanning_ref(r) ELSE r
              ELSE ref
    /\ state' = IF ok
                THEN LET st == [state EXCEPT !.scannedCodes = addScannedCode(@, code),
                                             !.lastScannedCodes = addLastScannedCode(@, code)]
                     IN SetState(IF pause THEN pauseScanning_state(st) ELSE st)
                ELSE state
    /\ sink' = IF ok
               THEN Append(sink, [code |-> code, at |-> now, session |-> sessionNo,
                                  lastScannedCode |-> "", lastScanTimestamp |-> 0])
               ELSE sink
    /\ scannedResults' = IF ok THEN handleScanSuccess(code, scannedResults) ELSE scannedResults
    /\ last' = [last EXCEPT !.code = code, !.verdict = IF ok THEN "accepted" ELSE "duplicate"]
Forward(code, ok) == ForwardIf(code, ok, TRUE)

\* a run of initializeCamera came to its end
Finish(e, i) ==
    IF mounted /\ i = cur THEN [e EXCEPT ![i].setup = "done"] ELSE [e EXCEPT ![i] = IdleRun]

TickInterval(step) ==
    /\ IntervalRunning
    /\ now + step <= MaxTime
    /\ now' = now + step
    /\ UNCHANGED <<gas, rev, timers, mounted, state, ref, rendered, eff, uploads, liveStreams,
                   sink, scannedResults, sessionNo, presses, last>>

\* initializeCamera, lines 109-126: enumerateDevices settled with a camera
IntervalEnumerateDevicesReturns(i) ==
    /\ rev \in IntervalRevs
    /\ eff[i].setup = "enumerateDevices"
    /\ eff' = [eff EXCEPT ![i].setup = "getUserMedia"]
    /\ ref' = [ref EXCEPT !.codeReaderRef = TRUE]
    /\ UNCHANGED <<gas, rev, timers, now, mounted, state, rendered, uploads, liveStreams, sink,
                   scannedResults, sessionNo, presses, last>>

\* initializeCamera, lines 126-139 (lines 150-151 and 230-231 when
\* videoRef.current is null): getUserMedia settled with a stream
IntervalGetUserMediaReturns(i) ==
    /\ rev \in IntervalRevs
    /\ eff[i].setup = "getUserMedia"
    /\ (1..MaxStreams) \ (liveStreams \cup {ref.srcObject}) # {}
    /\ LET stream == Lowest((1..MaxStreams) \ (liveStreams \cup {ref.srcObject})) IN
       /\ liveStreams' = liveStreams \cup {stream}
       /\ IF DomPresent
          THEN /\ eff' = [eff EXCEPT ![i].setup = "play", ![i].video = TRUE]
               /\ ref' = [ref EXCEPT !.srcObject = stream]
               /\ UNCHANGED state
          ELSE /\ eff' = Finish(eff, i)
               /\ state' = SetState([state EXCEPT !.isInitializing = FALSE])
               /\ UNCHANGED ref
    /\ UNCHANGED <<gas, rev, timers, now, mounted, rendered, uploads, sink, scannedResults,
                   sessionNo, presses, last>>

\* initializeCamera, lines 139-196: video.play() settled; scanCode sets the
\* interval and hands the callback to decodeFromVideoDevice
IntervalVideoPlayReturns(i) ==
    /\ rev \in IntervalRevs
    /\ eff[i].setup = "play"
    /\ eff' = [eff EXCEPT ![i].setup = "decodeFromVideoDevice"]
    /\ timers' = timers \cup {[kind |-> "jsQR", isScanning |-> eff[i].isScanning],
                              [kind |-> "zxing", isScanning |-> eff[i].isScanning]}
    /\ UNCHANGED <<gas, rev, now, mounted, state, ref, rendered, uploads, liveStreams, sink,
                   scannedResults, sessionNo, presses, last>>

\* lines 196-231: decodeFromVideoDevice settled, setIsInitializing(false)
IntervalScanStarted(i) ==
    /\ rev \in IntervalRevs
    /\ eff[i].setup = "decodeFromVideoDevice"
    /\ eff' = Finish(eff, i)
    /\ state' = SetState([state EXCEPT !.isInitializing = FALSE])
    /\ UNCHANGED <<gas, rev, timers, now, mounted, ref, rendered, uploads, liveStreams, sink,
                   scannedResults, sessionNo, presses, last>>

\* the video element yields frames while the stream attached to it is live,
\* in the document or not
VideoLive == ref.srcObject \in liveStreams

\* scanWithJsQR, lines 155-184, finding a code: an interval fires
scanWithJsQR(t, code) ==
    /\ IntervalRunning
    /\ t \in timers /\ t.kind = "jsQR"
    /\ VideoLive
    /\ DomPresent /\ t.isScanning
    /\ Len(sink) < MaxSink
    /\ Forward(code, AcceptsInterval(code, ref))
    /\ Ghost
    /\ UNCHANGED <<gas, rev, timers, now, mounted, rendered, eff, uploads, liveStreams, presses>>

\* the callback given to decodeFromVideoDevice, lines 199-212, called with a
\* result
ZXingCallback(t, code) ==
    /\ IntervalRunning
    /\ t \in timers /\ t.kind = "zxing"
    /\ VideoLive
    /\ t.isScanning
    /\ Len(sink) < MaxSink
    /\ Forward(code, AcceptsInterval(code, ref))
    /\ Ghost
    /\ UNCHANGED <<gas, rev, timers, now, mounted, rendered, eff, uploads, liveStreams, presses>>

\* the timer of pauseScanning fires, lines 58-60
PauseTimeout ==
    /\ IntervalRunning
    /\ ref.scanTimeoutRef # 0
    /\ now >= ref.scanTimeoutRef
    /\ state' = SetState([state EXCEPT !.isScanning = TRUE])
    /\ ref' = [ref EXCEPT !.scanTimeoutRef = 0]
    /\ UNCHANGED <<gas, rev, timers, now, mounted, rendered, eff, uploads, liveStreams, sink,
                   scannedResults, sessionNo, presses, last>>

\* the cleanup of the camera effect, lines 246-254
IntervalCleanup_streams ==
    IF eff[cur].video /\ ref.srcObject # 0 THEN liveStreams \ {ref.srcObject} ELSE liveStreams
IntervalCleanup_eff ==
    [i \in 1..MaxEffects |-> IF eff[i].setup \in {"none", "done"} THEN IdleRun ELSE eff[i]]
IntervalFreeSlots(e) == {i \in 1..MaxEffects : e[i] = IdleRun}

\* React commits a render.  When the dependencies of the camera effect
\* (line 255) changed, its cleanup (lines 246-254) runs and initializeCamera
\* starts again, up to the await of enumerateDevices (lines 96-109).
RenderInterval ==
    /\ rev \in IntervalRevs
    /\ IntervalRenderNeeded
    /\ IF IntervalDepsChanged
       THEN /\ IntervalFreeSlots(IntervalCleanup_eff) # {}
            /\ LET n == Lowest(IntervalFreeSlots(IntervalCleanup_eff)) IN
               /\ eff' = [IntervalCleanup_eff EXCEPT ![n] =
                            [IdleRun EXCEPT !.setup = "enumerateDevices",
                                            !.isScanning = state.isScanning]]
               /\ rendered' = [cameraError |-> state.cameraError,
                               onScanSuccess |-> Len(sink),
                               effect |-> n,
                               isScanning |-> state.isScanning]
            /\ liveStreams' = IntervalCleanup_streams
            /\ ref' = [ref EXCEPT !.scanTimeoutRef = 0, !.sessionScannedCodesRef = {}]
            /\ state' = [state EXCEPT !.isInitializing = TRUE, !.cameraError = ""]
       ELSE /\ rendered' = [rendered EXCEPT !.cameraError = state.cameraError]
            /\ UNCHANGED <<eff, ref, liveStreams, state>>
    /\ Ghost
    /\ UNCHANGED <<gas, rev, timers, now, mounted, uploads, sink, scannedResults, presses, last>>

\* the 履歴をクリア button, lines 534-539
ClearHistoryInterval ==
    /\ IntervalRunning
    /\ mounted
    /\ presses < MaxPresses
    /\ presses' = presses + 1
    /\ state' = [state EXCEPT !.scannedCodes = <<>>]
    /\ ref' = [ref EXCEPT !.sessionScannedCodesRef = {}]
    /\ Ghost
    /\ UNCHANGED <<gas, rev, timers, now, mounted, rendered, eff, uploads, liveStreams, sink,
                   scannedResults, last>>

\* handleFileUpload, lines 272-291 and 441: a file is chosen
IntervalUploadFile(u) ==
    /\ rev \in IntervalRevs \cup LadderRevs
    /\ ~IntervalRenderNeeded
    /\ DomPresent
    /\ uploads[u].pc = "idle"
    /\ uploads' = [uploads EXCEPT ![u].pc = "loading"]
    /\ ref' = [ref EXCEPT !.codeReaderRef = TRUE]
    /\ UNCHANGED <<gas, rev, timers, now, mounted, state, rendered, eff, liveStreams, sink,
                   scannedResults, sessionNo, presses, last>>

\* img.onload, lines 294-400: jsQR on the image; if it finds a code, the
\* inline duplicate test; if not, up to the await of decodeFromImageUrl
IntervalImageLoaded(u, result) ==
    /\ rev \in IntervalRevs
    /\ uploads[u].pc = "loading"
    /\ IF DomPresent /\ ref.codeReaderRef /\ result \in Codes
       THEN /\ Len(sink) < MaxSink
            /\ Forward(result, AcceptsInline(result, ref))
            /\ uploads' = [uploads EXCEPT ![u] = DoneUpload]
       ELSE /\ result = "null"
            /\ uploads' = [uploads EXCEPT ![u] = IF DomPresent /\ ref.codeReaderRef
                                                 THEN [@ EXCEPT !.pc = "decoding"]
                                                 ELSE DoneUpload]
            /\ UNCHANGED <<ref, state, sink, scannedResults, last>>
    /\ Ghost
    /\ UNCHANGED <<gas, rev, timers, now, mounted, rendered, eff, liveStreams, presses>>

\* img.onload, lines 400-437: the decodeFromImageUrl attempts are over
IntervalUploadDecodeReturns(u, result) ==
    /\ rev \in IntervalRevs
    /\ uploads[u].pc = "decoding"
    /\ IF result \in Codes
       THEN /\ Len(sink) < MaxSink
            /\ Forward(result, AcceptsInline(result, ref))
       ELSE /\ state' = SetState([state EXCEPT !.cameraError = "nodetect"])
            /\ UNCHANGED <<ref, sink, scannedResults, last>>
    /\ uploads' = [uploads EXCEPT ![u] = DoneUpload]
    /\ Ghost
    /\ UNCHANGED <<gas, rev, timers, now, mounted, rendered, eff, liveStreams, presses>>

\* Home.handleStopScan unmounts the component: the cleanup of the camera
\* effect runs (lines 246-254)
UnmountInterval ==
    /\ IntervalRunning
    /\ mounted
    /\ mounted' = FALSE
    /\ eff' = IntervalCleanup_eff
    /\ liveStreams' = IntervalCleanup_streams
    /\ ref' = [ref EXCEPT !.scanTimeoutRef = 0]
    /\ state' = InitStateInterval
    /\ rendered' = InitRenderedInterval
    /\ UNCHANGED <<gas, rev, timers, now, uploads, sink, scannedResults, sessionNo, presses, last>>

NextInterval ==
    \/ RenderInterval
    \/ TickInterval(TimeStep)
    \/ \E i \in Effects : IntervalEnumerateDevicesReturns(i)
    \/ \E i \in Effects : IntervalGetUserMediaReturns(i)
    \/ \E i \in Effects : IntervalVideoPlayReturns(i)
    \/ \E i \in Effects : IntervalScanStarted(i)
    \/ \E t \in timers, c \in Codes : scanWithJsQR(t, c)
    \/ \E t \in timers, c \in Codes : ZXingCallback(t, c)
    \/ PauseTimeout
    \/ ClearHistoryInterval
    \/ \E u \in Uploads : IntervalUploadFile(u)
    \/ \E u \in Uploads, r \in Codes \cup {"null"} : IntervalImageLoaded(u, r)
    \/ \E u \in Uploads, r \in Codes \cup {"null"} : IntervalUploadDecodeReturns(u, r)
    \/ UnmountInterval

SpecInterval == InitInterval /\ [][NextInterval]_vars

\* The revisions that keep sessionScannedCodesRef, together.
InitSessionSet == InitCooldown \/ InitInterval
NextSessionSet == NextCooldown \/ NextInterval
SpecSessionSet == InitSessionSet /\ [][NextSessionSet]_vars

\* The history lists of "jsqrInterval" and "jsqrIncludes" over a longer run
\* of the camera: the payloads shown are those delivered so far and the next
\* new one.  scanCode (lines 153-222) is either of its two callbacks,
\* scanWithJsQR (lines 155-184) and the one given to decodeFromVideoDevice
\* (lines 199-212), finding a code.
MaxSinkHistory == 12

scanCode(t, code) ==
    /\ IntervalRunning
    /\ t \in timers
    /\ VideoLive
    /\ t.isScanning
    /\ t.kind = "jsQR" => DomPresent
    /\ Len(sink) < MaxSinkHistory
    /\ code \in Seen => Repeats < MaxRepeats
    /\ Forward(code, AcceptsInterval(code, ref))
    /\ Ghost
    /\ UNCHANGED <<gas, rev, timers, now, mounted, rendered, eff, uploads, liveStreams, presses>>

InitHistory == \E r \in IntervalRevs : InitIntervalOf(r)
NextHistory ==
    \/ RenderInterval
    \/ \E i \in Effects : IntervalEnumerateDevicesReturns(i)
    \/ \E i \in Effects : IntervalGetUserMediaReturns(i)
    \/ \E i \in Effects : IntervalVideoPlayReturns(i)
    \/ \E i \in Effects : IntervalScanStarted(i)
    \/ \E t \in timers, c \in Shown : scanCode(t, c)
    \/ ClearHistoryInterval
SpecHistory == InitHistory /\ [][NextHistory]_vars

----------------------------------------------------------------------------
(* handleFileUpload attempt by attempt, in "jsqrInterval" (QRScanner.tsx    *)
(* lines 272-447), "zxingVideo" (part_002 lines 187-388) and "jsqrIncludes" *)
(* (part_000 lines 703-877).  The decoders are black boxes: an image is     *)
(* given by the one view of it, if any, in which each decoder finds its     *)
(* symbol.  A view is the image after the transform of attempt number       *)
(* transform (0: as drawn; 1-4: rotated by that many quarter turns; 5-7:    *)
(* scaled by 1.2, 0.8, 1.5) and, if gray, after the grayscale pass.  The    *)
(* camera is left where it is after mount.                                  *)

maxAttempts == 8

View(k, g) == [transform |-> k, gray |-> g]
NoView == View(maxAttempts, FALSE)
Images == [zxing : [transform : 0..(maxAttempts - 1), gray : BOOLEAN] \cup {NoView},
           jsQR : [transform : 0..(maxAttempts - 1), gray : BOOLEAN] \cup {NoView},
           code : {"A"},
           fails : {"null", "throws"}]

\* The end of a step of img.onload.  If the handler goes on to another
\* await, only its locals change.  If not, the result is processed:
\* QRScanner.tsx lines 339-359 and 405-437, part_002 lines 339-378, part_000
\* lines 800-824 and 844-866.
LadderStep(u, up, ends) ==
    /\ uploads' = [uploads EXCEPT ![u] = IF ends THEN [up EXCEPT !.pc = "done"] ELSE up]
    /\ IF ends /\ up.result \in Codes
       THEN ForwardIf(up.result, AcceptsInline(up.result, ref), rev # "zxingVideo")
       ELSE /\ state' = IF ends /\ rev # "jsqrIncludes"
                        THEN SetState([state EXCEPT !.cameraError = "nodetect"])
                        ELSE state
            /\ UNCHANGED <<ref, sink, scannedResults, last>>
    /\ Ghost
    /\ UNCHANGED <<gas, rev, timers, now, mounted, rendered, eff, liveStreams, presses>>

\* img.onload up to its first await.  QRScanner.tsx lines 295-400: jsQR on
\* the image as drawn, then on its grayscale; if neither finds a code,
\* dataUrl is taken from the canvas, which holds the grayscale, and the first
\* decodeFromImageUrl is started.  part_002 lines 210-271 and part_000 lines
\* 726-786: dataUrl is taken from the image as drawn.
LadderImageLoaded(u, img) ==
    /\ rev \in LadderRevs
    /\ uploads[u].pc = "loading"
    /\ LET up == [pc |-> "decoding", image |-> img, dataUrl |-> View(0, FALSE), ladder |-> 1,
                  attempts |-> 0, zxing |-> 0, jsQR |-> 0, result |-> "null"]
       IN IF ~(DomPresent /\ ref.codeReaderRef)
          THEN LadderStep(u, [up EXCEPT !.pc = "done"], FALSE)
          ELSE IF rev # "jsqrInterval"
          THEN LadderStep(u, up, FALSE)
          ELSE IF img.jsQR = View(0, FALSE)
          THEN LadderStep(u, [up EXCEPT !.jsQR = 1, !.result = img.code], TRUE)
          ELSE IF img.jsQR = View(0, TRUE)
          THEN LadderStep(u, [up EXCEPT !.jsQR = 2, !.result = img.code], TRUE)
          ELSE LadderStep(u, [up EXCEPT !.jsQR = 2, !.dataUrl = View(0, TRUE)], FALSE)

\* img.onload after an await: decodeFromImageUrl(dataUrl) has settled.
\* QRScanner.tsx lines 384-403; part_002 lines 254-288 and 291-336 (ZXing on
\* dataUrl, then jsQR on the canvas, which holds the transformed image from
\* the second attempt on); part_000 lines 786-799 and 827-843 (a second
\* dataUrl for the half turn, then jsQR on the grayscale).
LadderAttempt(u) ==
    /\ rev \in LadderRevs
    /\ uploads[u].pc = "decoding"
    /\ LET up == uploads[u]
           z == [up EXCEPT !.zxing = @ + 1]
           j == [z EXCEPT !.jsQR = @ + 1]
           found == up.dataUrl = up.image.zxing
           canvas == IF up.attempts = 0 THEN up.dataUrl ELSE View(up.attempts, FALSE)
           more == up.attempts + 1 < maxAttempts
       IN IF found
          THEN LadderStep(u, [z EXCEPT !.result = up.image.code], TRUE)
          ELSE CASE rev = "jsqrInterval" ->
                      LadderStep(u, [z EXCEPT !.attempts = @ + 1], ~more)
                 [] rev = "zxingVideo" ->
                      IF canvas = up.image.jsQR
                      THEN LadderStep(u, [j EXCEPT !.result = up.image.code], TRUE)
                      ELSE IF more
                      THEN LadderStep(u, [j EXCEPT !.attempts = @ + 1], FALSE)
                      ELSE IF up.ladder = 1
                      THEN LadderStep(u, [j EXCEPT !.ladder = 2, !.attempts = 0,
                                                   !.dataUrl = View(maxAttempts - 1, TRUE)], FALSE)
                      ELSE LadderStep(u, [j EXCEPT !.attempts = @ + 1], TRUE)
                 [] rev = "jsqrIncludes" ->
                      IF up.attempts = 0
                      THEN LadderStep(u, [z EXCEPT !.attempts = 1, !.dataUrl = View(2, FALSE)], FALSE)
                      ELSE LadderStep(u, [j EXCEPT !.result = IF up.image.jsQR = View(0, TRUE)
                                                               THEN up.image.code ELSE "null"], TRUE)

InitLadder == \E r \in LadderRevs : InitIntervalOf(r)
NextLadder ==
    \/ \E u \in Uploads : IntervalUploadFile(u)
    \/ \E u \in Uploads, img \in Images : LadderImageLoaded(u, img)
    \/ \E u \in Uploads : LadderAttempt(u)
SpecLadder == InitLadder /\ [][NextLadder]_vars

----------------------------------------------------------------------------
(* src/attendance_automation.gs: the monthly attendance script of the       *)
(* spreadsheet.  gas holds the clock (today: year and month index, as       *)
(* getFullYear / getMonth give them), the rows of the イベント一覧 sheet the   *)
(* script works on (src, below the header), the rows and the total of the   *)
(* 勤務実績 sheet (dst, total), the label and range of the last import, and   *)
(* the function that ran last (by).                                         *)
(* A month label "N月" is the number N; a time cell "HH:mm" is <<HH, mm>>;   *)
(* a cell that holds no time is <<>>; a check box is "TRUE" or "FALSE"    *)
(* and "" where the column was never written.  The scanner is not mounted. *)

MaxRows == 3
MaxEvents == 2

\* new Date(y, m, 1): a month index outside 0..11 carries into the year
Date(y, m) == [y |-> y + (m \div 12), m |-> m % 12]

\* getMonthLabel, lines 17-21
getMonthLabel(offset, today) == Date(today.y, today.m + offset).m + 1

\* line 28 misread, without the step back to the previous year
getMonthRange_SameYear(monthLabel, today) ==
    <<Date(today.y, monthLabel - 1), Date(today.y, monthLabel)>>
\* getMonthRange, lines 23-30
getMonthRange(monthLabel, today) ==
    LET m == monthLabel - 1
        y == IF m > today.m THEN today.y - 1 ELSE today.y
    IN <<Date(y, m), Date(y, m + 1)>>

\* lines 184-185 misread, without the day added to an end before the start
toMinutes_SameDay(row) ==
    IF row.s = <<>> \/ row.e = <<>>
    THEN <<>>
    ELSE <<row.s[1] * 60 + row.s[2], row.e[1] * 60 + row.e[2]>>
\* lines 124-129 and 182-186: start and end of a row in minutes, the end
\* moved to the next day when it is before the start; <<>> when a cell does
\* not parse (isNaN)
toMinutes(row) ==
    IF row.s = <<>> \/ row.e = <<>>
    THEN <<>>
    ELSE LET sMin == row.s[1] * 60 + row.s[2]
             eMin == row.e[1] * 60 + row.e[2]
         IN <<sMin, IF eMin < sMin THEN eMin + 24 * 60 ELSE eMin>>

\* addConfirmationRow, lines 94-100: the row ['', msg] after the last row,
\* unless the last row is that row
addConfirmationRow(rows) ==
    LET msg == [date |-> "", s |-> <<>>, e |-> <<>>, check |-> "", text |-> "OK"]
    IN IF rows # <<>> /\ rows[Len(rows)].text = "OK" THEN rows ELSE Append(rows, msg)

\* importCalendarEvents, lines 33-71: the sheet is cleared and filled with
\* the events the calendar returns for the range of the label; four columns
\* are written, the check column stays empty.  cal is what CalendarApp
\* gives: whether getCalendarById finds the calendar and what getEvents
\* returns.  The sheet is cleared (line 42) before the calendar is looked up
\* (line 46), and a calendar not found ends the function (lines 47-50).
importCalendarEvents(g, monthLabel, cal) ==
    LET events == cal.events
        rows == [k \in 1..Len(events) |->
                    [date |-> events[k].date, s |-> events[k].s, e |-> events[k].e,
                     check |-> "", text |-> ""]]
        none == [date |-> "(none)", s |-> <<>>, e |-> <<>>, check |-> "", text |-> ""]
    IN [g EXCEPT !.label = monthLabel,
                 !.range = getMonthRange(monthLabel, g.today),
                 !.src = IF ~cal.found THEN <<>>
                         ELSE addConfirmationRow(IF events = <<>> THEN <<none>> ELSE rows)]

\* applyCheckMarks, lines 103-153.  The rows with a date and two times are
\* taken longest first (the sort of line 136 is stable) and accepted unless
\* they overlap an accepted row of their date; perDate keeps the dates apart.
applyCheckMarks(data) ==
    LET n == Len(data)
        valid == {r \in 1..n : data[r].date # "" /\ toMinutes(data[r]) # <<>>}
        dur(r) == toMinutes(data[r])[2] - toMinutes(data[r])[1]
        before(a, b) == dur(a) > dur(b) \/ (dur(a) = dur(b) /\ a < b)
        list == [k \in 1..Cardinality(valid) |->
                    CHOOSE r \in valid : Cardinality({a \in valid : before(a, r)}) = k - 1]
        overlap(ev, ac) ==
            /\ data[ev].date = data[ac].date
            /\ ~(toMinutes(data[ev])[2] <= toMinutes(data[ac])[1]
                 \/ toMinutes(data[ev])[1] >= toMinutes(data[ac])[2])
        accepted[k \in 0..Len(list)] ==
            IF k = 0 THEN {}
            ELSE IF \E ac \in accepted[k - 1] : overlap(list[k], ac)
                 THEN accepted[k - 1]
                 ELSE accepted[k - 1] \cup {list[k]}
        updated(r) ==
            IF r \notin valid THEN data[r].check
            ELSE IF r \in accepted[Len(list)]
                 THEN (IF data[r].check # "FALSE" THEN "TRUE" ELSE data[r].check)
                 ELSE "FALSE"
    IN [r \in 1..n |-> [data[r] EXCEPT !.check = updated(r)]]

\* updateAttendanceData, lines 156-205: every row whose times parse is
\* copied and added to the total (the test of the check column, line 178,
\* is a comment)
updateAttendanceData(g) ==
    LET data == addConfirmationRow(g.src)
        counted == {i \in 1..Len(data) : toMinutes(data[i]) # <<>>}
        duration(i) == toMinutes(data[i])[2] - toMinutes(data[i])[1]
        upTo[k \in 0..Len(data)] ==
            IF k = 0 THEN [rows |-> <<>>, total |-> 0]
            ELSE IF k \in counted
                 THEN [rows |-> Append(upTo[k - 1].rows,
                                       [date |-> data[k].date, s |-> data[k].s,
                                        e |-> data[k].e, duration |-> duration(k)]),
                       total |-> upTo[k - 1].total + duration(k)]
                 ELSE upTo[k - 1]
    IN [g EXCEPT !.src = data,
                 !.dst = upTo[Len(data)].rows,
                 !.total = upTo[Len(data)].total]

InitAttendance ==
    /\ rev = "attendance"
    /\ now = StartTime
    /\ mounted = FALSE
    /\ state = InitState
    /\ ref = InitRef
    /\ rendered = InitRendered
    /\ eff = [i \in 1..MaxEffects |-> DeadEffect]
    /\ uploads = [u \in 1..MaxUploads |-> DoneUpload]
    /\ liveStreams = {}
    /\ sink = <<>>
    /\ scannedResults = <<>>
    /\ sessionNo = 0
    /\ presses = 0
    /\ last = [code |-> "", verdict |-> "none", attempt |-> 0]
    /\ timers = {}
    /\ \E m \in 0..11, k \in 0..MaxRows :
         \E rows \in [1..k -> [date : {"d1", "d2"},
                               time : {<<9, 12>>, <<11, 13>>, <<12, 13>>},
                               check : {"TRUE", "FALSE"}]] :
            gas = [today |-> [y |-> 2025, m |-> m], label |-> 0, range |-> <<>>,
                   src |-> [r \in 1..k |-> [date |-> rows[r].date,
                                            s |-> <<rows[r].time[1], 0>>,
                                            e |-> <<rows[r].time[2], 0>>,
                                            check |-> rows[r].check, text |-> ""]],
                   dst |-> <<>>, total |-> 0, by |-> ""]

\* runMonthlyBatch, lines 87-91, with what CalendarApp gives
runMonthlyBatch(cal) ==
    /\ rev = "attendance"
    /\ gas' = [updateAttendanceData(
                  importCalendarEvents(gas, getMonthLabel(-1, gas.today), cal))
               EXCEPT !.by = "runMonthlyBatch"]
    /\ UNCHANGED <<rev, now, mounted, state, ref, rendered, eff, uploads, liveStreams,
                   sink, scannedResults, sessionNo, presses, last, timers>>

\* manualImport, lines 231-260, the user having typed a label "N月"
manualImport(monthLabel, cal) ==
    /\ rev = "attendance"
    /\ gas' = [updateAttendanceData(importCalendarEvents(gas, monthLabel, cal))
               EXCEPT !.by = "manualImport"]
    /\ UNCHANGED <<rev, now, mounted, state, ref, rendered, eff, uploads, liveStreams,
                   sink, scannedResults, sessionNo, presses, last, timers>>

\* applyCheckMarks run on the sheet
CheckSheet ==
    /\ rev = "attendance"
    /\ gas' = [gas EXCEPT !.src = applyCheckMarks(@), !.by = "applyCheckMarks"]
    /\ UNCHANGED <<rev, now, mounted, state, ref, rendered, eff, uploads, liveStreams,
                   sink, scannedResults, sessionNo, presses, last, timers>>

\* debugUpdateAttendance, lines 337-357: updateAttendanceData on the sheet
\* as it is
debugUpdateAttendance ==
    /\ rev = "attendance"
    /\ gas' = [updateAttendanceData(gas) EXCEPT !.by = "debugUpdateAttendance"]
    /\ UNCHANGED <<rev, now, mounted, state, ref, rendered, eff, uploads, liveStreams,
                   sink, scannedResults, sessionNo, presses, last, timers>>

NextAttendance ==
    \/ \E cal \in {[found |-> FALSE, events |-> <<>>]} \cup
                   [found : {TRUE},
                    events : UNION {[1..k -> [date : {"d1"}, s : {<<9, 0>>, <<23, 30>>},
                                              e : {<<1, 0>>}]] : k \in 0..MaxEvents}] :
         \/ runMonthlyBatch(cal)
         \/ \E monthLabel \in 1..12 : manualImport(monthLabel, cal)
    \/ CheckSheet
    \/ debugUpdateAttendance
SpecAttendance == InitAttendance /\ [][NextAttendance]_vars

----------------------------------------------------------------------------
(* attendance_automation.gs, the installable triggers of the project.  gas  *)
(* holds what ScriptApp.getProjectTriggers() returns, a trigger given by    *)
(* its handler function and by whether it is time-based, the text of the    *)
(* last alert and the number of createMonthlyTrigger calls made.            *)

MaxTriggers == 3
MaxCalls == 2

InitTriggers ==
    /\ rev = "triggers"
    /\ now = StartTime
    /\ mounted = FALSE
    /\ state = InitState
    /\ ref = InitRef
    /\ rendered = InitRendered
    /\ eff = [i \in 1..MaxEffects |-> DeadEffect]
    /\ uploads = [u \in 1..MaxUploads |-> DoneUpload]
    /\ liveStreams = {}
    /\ sink = <<>>
    /\ scannedResults = <<>>
    /\ sessionNo = 0
    /\ presses = 0
    /\ last = [code |-> "", verdict |-> "none", attempt |-> 0]
    /\ timers = {}
    /\ \E k \in 0..MaxTriggers :
         \E ts \in [1..k -> [handler : {"runMonthlyBatch", "onEdit"}, timeBased : BOOLEAN]] :
            gas = [triggers |-> ts, alert |-> -1, creates |-> 0, by |-> ""]

\* line 75 misread, without the deletion of the old triggers
createMonthlyTrigger_NoDelete ==
    /\ rev = "triggers"
    /\ gas.creates < MaxCalls
    /\ gas' = [gas EXCEPT
                  !.triggers = Append(@, [handler |-> "runMonthlyBatch", timeBased |-> TRUE]),
                  !.creates = @ + 1,
                  !.by = "createMonthlyTrigger"]
    /\ UNCHANGED <<rev, now, mounted, state, ref, rendered, eff, uploads, liveStreams,
                   sink, scannedResults, sessionNo, presses, last, timers>>
\* createMonthlyTrigger, lines 73-85
createMonthlyTrigger ==
    /\ rev = "triggers"
    /\ gas.creates < MaxCalls
    /\ gas' = [gas EXCEPT
                  !.triggers = Append(SelectSeq(@, LAMBDA t : t.handler # "runMonthlyBatch"),
                                      [handler |-> "runMonthlyBatch", timeBased |-> TRUE]),
                  !.creates = @ + 1,
                  !.by = "createMonthlyTrigger"]
    /\ UNCHANGED <<rev, now, mounted, state, ref, rendered, eff, uploads, liveStreams,
                   sink, scannedResults, sessionNo, presses, last, timers>>

\* removeTriggers, lines 294-306
removeTriggers ==
    /\ rev = "triggers"
    /\ gas.by # "removeTriggers"
    /\ LET count == Len(SelectSeq(gas.triggers, LAMBDA t : t.handler = "runMonthlyBatch"))
       IN gas' = [gas EXCEPT
                     !.triggers = SelectSeq(@, LAMBDA t : t.handler # "runMonthlyBatch"),
                     !.alert = count,
                     !.by = "removeTriggers"]
    /\ UNCHANGED <<rev, now, mounted, state, ref, rendered, eff, uploads, liveStreams,
                   sink, scannedResults, sessionNo, presses, last, timers>>

NextTriggers ==
    \/ createMonthlyTrigger
    \/ removeTriggers
SpecTriggers == InitTriggers /\ [][NextTriggers]_vars

----------------------------------------------------------------------------
(* src/src/workers/qrWorker.ts: the decode worker.  gas holds the calls of  *)
(* self.onmessage, one job for each message received, and the replies      *)
(* posted; a reply is kept with the job that posted it.  A message is      *)
(* given by what the handler meets in it:                                   *)
(*   "nodata"  event.data is null or undefined                              *)
(*   "noimage" event.data has no imageData to make an array of              *)
(*   "blank"   an image in which the reader finds no symbol                 *)
(*   "symbol"  an image in which the reader finds the payload A             *)

MaxMessages == 3

InitWorker ==
    /\ rev = "worker"
    /\ now = StartTime
    /\ mounted = FALSE
    /\ state = InitState
    /\ ref = InitRef
    /\ rendered = InitRendered
    /\ eff = [i \in 1..MaxEffects |-> DeadEffect]
    /\ uploads = [u \in 1..MaxUploads |-> DoneUpload]
    /\ liveStreams = {}
    /\ sink = <<>>
    /\ scannedResults = <<>>
    /\ sessionNo = 0
    /\ presses = 0
    /\ last = [code |-> "", verdict |-> "none", attempt |-> 0]
    /\ timers = {}
    /\ gas = [jobs |-> <<>>, replies |-> <<>>]

\* self.onmessage up to await decodeFromCanvas, lines 6-51, or to its end.
\* Line 7 destructures event.data outside the try block.  Inside it the
\* making of the array (lines 35-38) and of the canvas (lines 42-47) may
\* throw, canvas telling whether document and the 2d context are there.
onmessage(data, canvas) ==
    /\ rev = "worker"
    /\ Len(gas.jobs) < MaxMessages
    /\ LET j == Len(gas.jobs) + 1
           null == [job |-> j, result |-> "null", format |-> FALSE]
       IN IF data = "nodata"
          THEN gas' = [gas EXCEPT !.jobs = Append(@, [data |-> data, pc |-> "rejected"])]
          ELSE IF data = "noimage" \/ ~canvas
          THEN gas' = [gas EXCEPT !.jobs = Append(@, [data |-> data, pc |-> "done"]),
                                  !.replies = Append(@, null)]
          ELSE gas' = [gas EXCEPT !.jobs = Append(@, [data |-> data, pc |-> "decoding"])]
    /\ UNCHANGED <<rev, now, mounted, state, ref, rendered, eff, uploads, liveStreams,
                   sink, scannedResults, sessionNo, presses, last, timers>>

\* self.onmessage after await decodeFromCanvas, lines 51-62: the reader
\* returns a result, returns nothing or throws
decodeFromCanvasSettles(j, outcome) ==
    /\ rev = "worker"
    /\ j \in 1..Len(gas.jobs)
    /\ gas.jobs[j].pc = "decoding"
    /\ outcome = "result" => gas.jobs[j].data = "symbol"
    /\ gas' = [gas EXCEPT !.jobs[j].pc = "done",
                          !.replies = Append(@, IF outcome = "result"
                                                THEN [job |-> j, result |-> "A", format |-> TRUE]
                                                ELSE [job |-> j, result |-> "null", format |-> FALSE])]
    /\ UNCHANGED <<rev, now, mounted, state, ref, rendered, eff, uploads, liveStreams,
                   sink, scannedResults, sessionNo, presses, last, timers>>

NextWorker ==
    \/ \E data \in {"nodata", "noimage", "blank", "symbol"}, canvas \in BOOLEAN :
          onmessage(data, canvas)
    \/ \E j \in 1..MaxMessages, outcome \in {"result", "null", "throws"} :
          decodeFromCanvasSettles(j, outcome)
SpecWorker == InitWorker /\ [][NextWorker]_vars

----------------------------------------------------------------------------
(* Properties *)

Deliveries == 1..Len(sink)
SameCode(i, j) == i < j /\ sink[i].code = sink[j].code
\* the step calls onScanSuccess
Delivers == Len(sink') = Len(sink) + 1
Delivered == sink'[Len(sink')]

\* C1: onScanSuccess(c) is called only when c is not in the session set, and
\* c is in the set after the call; so between two emptyings of the session
\* set no payload reaches onScanSuccess twice.
C1_OncePerSession ==
    /\ [](\A i, j \in Deliveries : SameCode(i, j) => sink[i].session # sink[j].session)
    /\ [][Delivers => /\ Delivered.code \notin ref.sessionScannedCodesRef
                      /\ Delivered.code \in ref'.sessionScannedCodesRef]_vars
\* a payload that is in the session set was decoded again and dropped
C1_Witness ==
    /\ mounted
    /\ last.verdict = "duplicate"
    /\ last.code \in ref.sessionScannedCodesRef
    /\ \E i \in Deliveries : sink[i].code = last.code /\ sink[i].session = sessionNo

C3_Cooldown ==
    \A i, j \in Deliveries : SameCode(i, j) => sink[j].at - sink[i].at >= CooldownMs

\* C4: a step that empties the session set (履歴をクリア, stopCamera, camera
\* re-initialisation; not メモリクリア, not the unmount) leaves lastScannedCode
\* and lastScanTimestamp alone, and the last accepted payload is not
\* delivered again until 5000 ms after its acceptance.
C4_CooldownAcrossSessions ==
    /\ [][/\ ref.sessionScannedCodesRef # {}
          /\ ref'.sessionScannedCodesRef = {}
          /\ mounted'
          /\ ~ResetAllData
          => /\ state'.lastScannedCode = state.lastScannedCode
             /\ state'.lastScanTimestamp = state.lastScanTimestamp]_vars
    /\ [][Delivers /\ mounted =>
            ~(/\ Delivered.code = state.lastScannedCode
              /\ now - state.lastScanTimestamp < CooldownMs)]_vars

\* C5: from a fresh session, with no button pressed and the component
\* mounted, a payload the sink has received is dropped when it is decoded
\* again within the cooldown, whatever was accepted in between: the sink
\* never holds the same payload twice less than 5000 ms apart.
C5_EndToEnd ==
    presses = 0 /\ mounted =>
        \A i, j \in Deliveries : SameCode(i, j) => sink[j].at - sink[i].at >= CooldownMs

\* C6: in the revisions that test against the scannedCodes state, no payload
\* is delivered twice unless 履歴をクリア was pressed between the deliveries.
C6_OncePerSession ==
    \A i, j \in Deliveries : SameCode(i, j) => sink[i].session # sink[j].session

\* the decodes awaited at lines 308 and 464 that have not settled
Outstanding ==
    Cardinality({i \in 1..MaxEffects : eff[i].loop = "decoding"})
      + Cardinality({u \in 1..MaxUploads : uploads[u].pc = "decoding"})
\* C7: at most one decode invocation is outstanding at any time.
C7_OneDecode == Outstanding <= 1

\* C8: once the component is torn down no animation frame request of a scan
\* loop is pending, so no further scan tick executes.
C8_NoTickAfterStop == ~mounted => \A i \in 1..MaxEffects : eff[i].loop # "scheduled"

\* C9: after the teardown a late decode result neither calls onScanSuccess
\* nor changes the session set.
C9_LateResultDiscarded ==
    [][~mounted => /\ sink' = sink
                   /\ ref'.sessionScannedCodesRef = ref.sessionScannedCodesRef]_vars

\* C10: at most one MediaStream has tracks that were not stopped.
C10_OneStream == Cardinality(liveStreams) <= 1

\* the payloads handed to onScanSuccess, in the order of the calls
Accepted == [k \in 1..Len(sink) |-> sink[k].code]
RECURSIVE KeepLast(_)
\* a sequence without the earlier occurrences of what occurs again later
KeepLast(s) ==
    IF s = <<>> THEN <<>>
    ELSE IF Head(s) \in Range(Tail(s)) THEN KeepLast(Tail(s))
    ELSE <<Head(s)>> \o KeepLast(Tail(s))
MostRecent(n) == SliceLast(KeepLast(Accepted), n)

\* C11: in the jsQR+ZXing revision lastScannedCodes never holds more than 5
\* entries and scannedCodes never more than 10; once more distinct payloads
\* than the bound were accepted, the list holds exactly that many entries, the
\* most recently accepted payloads in the order of their acceptance, oldest
\* first (for lastScannedCodes, which is a list, the last 5 acceptances
\* themselves count as well; for scannedCodes, as long as the history was
\* not cleared).
C11_HistoryBound ==
    rev \in IntervalRevs /\ mounted =>
        /\ Len(state.lastScannedCodes) <= LastCap
        /\ Len(state.scannedCodes) <= SetCap
        /\ Cardinality(Seen) > LastCap =>
               /\ Len(state.lastScannedCodes) = LastCap
               /\ state.lastScannedCodes \in {MostRecent(LastCap), SliceLast(Accepted, LastCap)}
        /\ presses = 0 /\ Cardinality(Seen) > SetCap =>
               /\ Len(state.scannedCodes) = SetCap
               /\ state.scannedCodes = MostRecent(SetCap)

\* C12: in src/unnamed/part_001 the history never holds more than 12 entries
\* and, as long as no button emptied it, it is the list of the 12 most
\* recently accepted payloads in the order of their acceptance, oldest first,
\* whatever renders happened between the acceptances.
C12_HistoryOrder ==
    rev = "cooldown" /\ mounted /\ presses = 0 =>
        /\ Len(state.scannedCodes) <= HistoryMax
        /\ state.scannedCodes = MostRecent(HistoryMax)

\* C13: a decodeFromCanvas that throws is a miss.  The step that handles the
\* exception leaves isScanningRef false, changes neither the state
\* (cameraError, history, lastScannedCode, lastScanTimestamp) nor the session
\* set, calls onScanSuccess not at all, and requests the next animation frame.
C13_ThrowIsMiss ==
    [][\A i \in Effects :
          DecodeReturns(i, "throws", MaxSink) =>
              /\ ~ref'.isScanningRef
              /\ state' = state
              /\ ref'.sessionScannedCodesRef = ref.sessionScannedCodesRef
              /\ sink' = sink /\ scannedResults' = scannedResults
              /\ eff'[i].loop = "scheduled" /\ ref'.animationFrameRef = i]_vars
C13_Witness ==
    /\ rev = "cooldown"
    /\ last.verdict = "threw"
    /\ ~ref.isScanningRef
    /\ \E i \in Effects : eff[i].loop = "scheduled" /\ ref.animationFrameRef = i

\* a step in which the acquisition of the camera fails, in run i
AcquireFails(i) ==
    \/ \E o \in Failures : EnumerateDevicesReturns(i, o)
    \/ GetUserMediaReturns(i, FALSE)
    \/ VideoPlayReturns(i, FALSE)

\* C14: a failed acquisition of the camera is shown as an error and not
\* tried again.  The failing step leaves cameraError set and isInitializing
\* false and starts no scan loop; and while the component is mounted with
\* cameraError set, setupCamera is not started again and getUserMedia is not
\* called.
C14_FailureNotRetried ==
    [][/\ \A i \in Effects :
            mounted /\ AcquireFails(i) =>
                /\ state'.cameraError # "" /\ ~state'.isInitializing
                /\ eff'[i].loop = "none"
       /\ mounted /\ state.cameraError # "" =>
            /\ ~(Render /\ DepsChanged)
            /\ \A i \in Effects : ~EnumerateDevicesReturns(i, "ok")]_vars

\* C15: an uploaded image in which no decoder finds a symbol is not fatal.
\* The step that ends the upload without a result leaves cameraError as it
\* was, so that the video, the scan loop and the upload control stay in the
\* document and the session is not in the state of a failed camera.
C15_NoSymbolNonFatal ==
    [][\A u \in Uploads :
          mounted /\ IntervalUploadDecodeReturns(u, "null") =>
              state'.cameraError = state.cameraError]_vars

\* C16: an uploaded image that ZXing decodes only after one transform of the
\* ladder (a rotation or a scaling; in part_000 the half turn) still yields
\* its payload: when the upload is over, the result is that payload.
C16_LadderSucceeds ==
    \A u \in Uploads :
        /\ rev \in LadderRevs
        /\ uploads[u].pc = "done"
        /\ ~uploads[u].image.zxing.gray
        /\ uploads[u].image.zxing.transform \in
               (IF rev = "jsqrIncludes" THEN {2} ELSE 1..(maxAttempts - 1))
        => uploads[u].result = uploads[u].image.code

\* C17: one upload makes at most 8 decode attempts with each decoder.
C17_AttemptBudget ==
    \A u \in Uploads :
        rev \in LadderRevs /\ uploads[u].pc \in {"decoding", "done"} =>
            /\ uploads[u].zxing <= maxAttempts
            /\ uploads[u].jsQR <= maxAttempts

\* C18: an uploaded image that jsQR reads only after the grayscale and
\* contrast pass is accepted exactly once: onScanSuccess is called once with
\* the payload, the payload is in the session set and once in each history
\* list, and no ZXing attempt was made.
C18_GrayscaleAcceptedOnce ==
    \A u \in Uploads :
        /\ rev \in {"jsqrInterval", "jsqrIncludes"}
        /\ uploads[u].pc = "done"
        /\ uploads[u].image.jsQR = View(0, TRUE)
        => /\ Accepted = <<uploads[u].image.code>>
           /\ uploads[u].image.code \in ref.sessionScannedCodesRef
           /\ state.scannedCodes = <<uploads[u].image.code>>
           /\ state.lastScannedCodes = <<uploads[u].image.code>>
           /\ uploads[u].zxing = 0

\* What the callback given to decodeFromVideoDevice does with a result for
\* code: part_002 lines 111-151, QRScanner.tsx lines 199-212.  The isScanning
\* it tests is the one of the render whose effect registered it.
CameraFrame(code) ==
    IF rendered.isScanning
    THEN Forward(code, AcceptsInterval(code, ref))
    ELSE UNCHANGED <<ref, state, sink, scannedResults>>
\* the step ends the handling of upload u with the payload code found in the
\* image: QRScanner.tsx lines 339-359 and 405-429, part_002 lines 339-371
UploadFound(u, code) ==
    /\ uploads[u].pc # "done"
    /\ uploads'[u].pc = "done"
    /\ uploads'[u].result = code

\* C19: a symbol found in an uploaded image is accepted or rejected, and
\* changes the session set, the history lists, the calls of onScanSuccess and
\* the pause state, exactly as the same symbol found in a camera frame would
\* in the same state.
C19_UploadAsCamera ==
    [][\A u \in Uploads, c \in Codes : UploadFound(u, c) => CameraFrame(c)]_vars

\* a scan tick of effect run i in which no symbol is found: it does not come
\* to decode, or decodeFromCanvas yields nothing or throws
NoSymbolTick(i) ==
    \/ ScanTick(i)
    \/ DecodeReturns(i, "null", MaxSink)
    \/ DecodeReturns(i, "throws", MaxSink)

\* C20: a scan tick whose decoder finds nothing leaves the session set, the
\* history list and the cooldown state (lastScannedCode, lastScanTimestamp)
\* as they were and does not call onScanSuccess.
C20_NoSymbolNoEffect ==
    [][(\E i \in Effects : NoSymbolTick(i)) =>
          /\ ref'.sessionScannedCodesRef = ref.sessionScannedCodesRef
          /\ state'.scannedCodes = state.scannedCodes
          /\ state'.lastScannedCode = state.lastScannedCode
          /\ state'.lastScanTimestamp = state.lastScanTimestamp
          /\ sink' = sink
          /\ scannedResults' = scannedResults]_vars
\* after a payload was accepted a later decode settled without a result: the
\* time of the last scan is past the acceptance, which is still the last
\* verdict
C20_Witness ==
    /\ mounted
    /\ last.verdict = "accepted"
    /\ sink # <<>>
    /\ ref.lastScanTimeRef > sink[Len(sink)].at
    /\ last.code \in Range(state.scannedCodes)
    /\ state.lastScannedCode = last.code

\* the step ends the initialisation that effect run i had under way
InitializationEnds(i) ==
    /\ eff[i].setup \in {"enumerateDevices", "getUserMedia", "play", "decodeFromVideoDevice"}
    /\ eff'[i].setup \in {"none", "done"}

\* C21: every camera initialisation leaves Initializing: when it finishes,
\* on any of its paths, isInitializing is false, and either cameraError is
\* set and no scan loop was started, or cameraError is empty and the scan
\* loop runs.
C21_LeavesInitializing ==
    [][\A i \in Effects : mounted /\ InitializationEnds(i) =>
          /\ ~state'.isInitializing
          /\ \/ state'.cameraError # "" /\ eff'[i].loop = "none"
             \/ state'.cameraError = "" /\ eff'[i].loop = "scheduled"]_vars

\* C22: updateAttendanceData copies to the 勤務実績 sheet, and adds to the
\* total, only the rows of the event sheet whose check value is TRUE: after
\* it has run, the rows of the sheet are the checked rows, in order, and the
\* total is the sum of their minutes.
C22_OnlyCheckedRows ==
    [][~CheckSheet =>
         LET src == gas'.src
             checked == {i \in 1..Len(src) : src[i].check = "TRUE" /\ toMinutes(src[i]) # <<>>}
             minutes(i) == toMinutes(src[i])[2] - toMinutes(src[i])[1]
             sum[k \in 0..Len(src)] ==
                 IF k = 0 THEN 0
                 ELSE sum[k - 1] + (IF k \in checked THEN minutes(k) ELSE 0)
         IN /\ Len(gas'.dst) = Cardinality(checked)
            /\ \A k \in 1..Len(gas'.dst) : \E i \in checked :
                  /\ gas'.dst[k].date = src[i].date
                  /\ gas'.dst[k].duration = minutes(i)
            /\ gas'.total = sum[Len(src)]]_vars

\* C23: runMonthlyBatch asks the calendar for the range from the first day
\* of the month before the run to the first day of the month of the run, a
\* run in January asking for December of the year before; and for every
\* label getMonthRange gives a range of one month, the month of the label,
\* that does not start after the month of the run.
C23_PreviousMonth ==
    LET months(d) == 12 * d.y + d.m
        t == gas.today
    IN /\ gas.by = "runMonthlyBatch" =>
            /\ gas.range[1] = (IF t.m = 0 THEN [y |-> t.y - 1, m |-> 11]
                                           ELSE [y |-> t.y, m |-> t.m - 1])
            /\ gas.range[2] = t
       /\ gas.by \in {"runMonthlyBatch", "manualImport"} =>
            /\ gas.range[1].m = gas.label - 1
            /\ months(gas.range[2]) = months(gas.range[1]) + 1
            /\ months(gas.range[1]) <= months(t)
\* the batch has run in January and asked for December of the year before
C23_Witness ==
    /\ gas # <<>>
    /\ gas.by = "runMonthlyBatch"
    /\ gas.today.m = 0
    /\ gas.range = <<[y |-> gas.today.y - 1, m |-> 11], [y |-> gas.today.y, m |-> 0]>>

\* C24: after applyCheckMarks no two rows of one date whose check value is
\* TRUE overlap in time, and of two overlapping rows of one date the shorter
\* one is FALSE.
C24_ShortOverlapUnchecked ==
    gas # <<>> /\ gas.by = "applyCheckMarks" =>
        LET src == gas.src
            events == {i \in 1..Len(src) : src[i].date # "" /\ toMinutes(src[i]) # <<>>}
            from(i) == toMinutes(src[i])[1]
            to(i) == toMinutes(src[i])[2]
            overlapping(i, j) ==
                /\ i # j
                /\ src[i].date = src[j].date
                /\ from(i) < to(j) /\ from(j) < to(i)
        IN \A i, j \in events : overlapping(i, j) =>
              /\ ~(src[i].check = "TRUE" /\ src[j].check = "TRUE")
              /\ to(i) - from(i) < to(j) - from(j) => src[i].check = "FALSE"

\* C25: accepting a payload does not restart the session: while the
\* component stays mounted and no button is pressed, a payload accepted from
\* a camera frame is still in sessionScannedCodesRef when the next frame is
\* decoded.
C25_AcceptKeepsSession ==
    [][\A i \in Effects :
          /\ eff[i].loop = "scheduled" /\ eff'[i].loop = "decoding"
          /\ mounted /\ presses = 0
          /\ last.verdict = "accepted"
          => last.code \in ref.sessionScannedCodesRef]_vars

\* C26: the pause after an accepted scan ends: while the component stays
\* mounted the resume timer set by pauseScanning is not cancelled except by
\* a newer pause, so it goes away only by firing, which sets isScanning to
\* true again.
C26_PauseEnds ==
    [][mounted /\ mounted' /\ ref.scanTimeoutRef # 0 /\ ref'.scanTimeoutRef = 0
          => state'.isScanning]_vars

\* C27: while scanning is paused no camera result is processed: no tick of
\* a jsQR interval and no ZXing video callback, of the current run of the
\* camera effect or of an earlier one, comes to call processScannedCode
\* while isScanning is false.
C27_PausedDropsFrames ==
    [][\A t \in timers, c \in Codes :
          scanWithJsQR(t, c) \/ ZXingCallback(t, c) => state.isScanning]_vars

\* C28: in the scan loop of part_001 a decode of a camera frame starts only on
\* every 3rd animation frame and only if at least 800 ms have passed since
\* the start of the previous decode, whether that decode found a symbol,
\* found nothing or threw.
C28_Cadence ==
    [][\A i \in Effects :
          /\ rev = "cooldown"
          /\ eff[i].loop = "scheduled" /\ eff'[i].loop = "decoding"
          /\ presses = 0
          => /\ (ref.frameCountRef + 1) % frameInterval = 0
             /\ last.attempt = 0 \/ now - last.attempt >= scanInterval]_vars

\* C29: for an uploaded image jsQR is tried first, and the ZXing reader is
\* called only when jsQR has been tried on that image and found nothing.
C29_JsQRFirst ==
    [][\A u \in Uploads :
          /\ rev \in LadderRevs
          /\ uploads[u].pc = "decoding"
          /\ uploads'[u].zxing > uploads[u].zxing
          => /\ uploads[u].jsQR > 0
             /\ uploads[u].image.jsQR \notin {View(0, FALSE), View(0, TRUE)}]_vars

C31_OrderKept ==
    [][\A f \in MultiFrames :
          (\E i \in Effects : ScanReturnsMulti(i, f)) \/ UploadZbarReturns(f)
          => LET new == SubSeq(sink', Len(sink) + 1, Len(sink'))
             IN \E g \in [1..Len(new) -> 1..Len(f)] :
                   /\ \A k \in 1..Len(new) : f[g[k]] = new[k].code
                   /\ \A k, l \in 1..Len(new) : k < l => g[k] < g[l]]_vars
\* a decode returned two different payloads and both were forwarded
C31_Witness ==
    /\ last.verdict = "results"
    /\ Len(last.results) = 2
    /\ last.results[1] # last.results[2]
    /\ Len(sink) >= 2
    /\ sink[Len(sink) - 1].code = last.results[1]
    /\ sink[Len(sink)].code = last.results[2]

\* C32: when the result list of one decode holds the same payload more than
\* once, onScanSuccess is called only once for that payload by that decode.
C32_OncePerList ==
    [][\A f \in MultiFrames :
          (\E i \in Effects : ScanReturnsMulti(i, f)) \/ UploadZbarReturns(f)
          => \A k, l \in (Len(sink) + 1)..Len(sink') :
                sink'[k].code = sink'[l].code => k = l]_vars

\* C33: Home.scannedResults has at most 10 entries and is the payloads
\* passed to handleScanSuccess, the 10 most recent of them, newest first;
\* stopping and restarting the scan leaves it unchanged.
C33_ParentList ==
    /\ [](/\ Len(scannedResults) <= ResultsMax
          /\ Len(scannedResults) = IF Len(sink) < ResultsMax THEN Len(sink) ELSE ResultsMax
          /\ \A k \in 1..Len(scannedResults) :
                scannedResults[k] = sink[Len(sink) + 1 - k].code)
    /\ [][mounted' # mounted => scannedResults' = scannedResults]_vars
\* the scan was stopped and started again after more than 10 payloads
C33_Witness ==
    /\ rev = "jsqrFirst"
    /\ mounted
    /\ state.isInitializing
    /\ Len(sink) > ResultsMax
    /\ Len(scannedResults) = ResultsMax

\* C34: the decode worker answers every message exactly once: when the
\* handler has ended for a message, one reply has been posted for it, with
\* the text and the format if a symbol was decoded and with null if not, and
\* no exception has left the handler.
C34_OneReply ==
    rev = "worker" =>
        \A j \in 1..Len(gas.jobs) :
            LET mine == SelectSeq(gas.replies, LAMBDA r : r.job = j)
            IN /\ gas.jobs[j].pc # "rejected"
               /\ Len(mine) = (IF gas.jobs[j].pc = "done" THEN 1 ELSE 0)
               /\ \A k \in 1..Len(mine) :
                     /\ mine[k].result = "A" => gas.jobs[j].data = "symbol" /\ mine[k].format
                     /\ mine[k].result = "null" => ~mine[k].format

\* C35: after every call of createMonthlyTrigger, the first or a later one,
\* exactly one trigger for runMonthlyBatch exists and it is time-based;
\* after removeTriggers none exists and the count reported is the number
\* removed; neither touches the triggers of other handlers.
C35_TriggerSetup ==
    [][LET mine(ts) == SelectSeq(ts, LAMBDA t : t.handler = "runMonthlyBatch")
           others(ts) == SelectSeq(ts, LAMBDA t : t.handler # "runMonthlyBatch")
       IN /\ createMonthlyTrigger =>
                /\ mine(gas'.triggers) = <<[handler |-> "runMonthlyBatch", timeBased |-> TRUE]>>
                /\ others(gas'.triggers) = others(gas.triggers)
          /\ removeTriggers =>
                /\ mine(gas'.triggers) = <<>>
                /\ gas'.alert = Len(gas.triggers) - Len(gas'.triggers)
                /\ others(gas'.triggers) = others(gas.triggers)]_vars
\* createMonthlyTrigger was called a second time with a trigger of another
\* handler in the project
C35_Witness ==
    /\ rev = "triggers"
    /\ gas.by = "createMonthlyTrigger"
    /\ gas.creates = 2
    /\ \E k \in 1..Len(gas.triggers) : gas.triggers[k].handler = "onEdit"

\* C37: when the calendar is not found, importCalendarEvents leaves the
\* event sheet with the contents it had: the rows of before are there after
\* the run, with the confirmation row after them.
C37_SheetKeptOnError ==
    [][\A monthLabel \in 1..12 :
          LET cal == [found |-> FALSE, events |-> <<>>]
          IN runMonthlyBatch(cal) \/ manualImport(monthLabel, cal)
             => gas'.src = addConfirmationRow(gas.src)]_vars

\* C36: after updateAttendanceData the result sheet holds, in their order,
\* the rows of the event sheet whose two times parse, each with the minutes
\* from its start to its end, a day added when the end is before the start,
\* so that 0 <= duration < 1440; the total is the sum of these durations;
\* the rows whose times do not parse are left out and add nothing.
C36_Totals ==
    gas # <<>> /\ gas.by \in {"runMonthlyBatch", "manualImport", "debugUpdateAttendance"} =>
        LET src == gas.src
            dst == gas.dst
            parses(i) == src[i].s # <<>> /\ src[i].e # <<>>
            at(i) == Cardinality({j \in 1..i : parses(j)})
            minutes(t) == 60 * t[1] + t[2]
            sum[k \in 0..Len(dst)] == IF k = 0 THEN 0 ELSE sum[k - 1] + dst[k].duration
        IN /\ Len(dst) = at(Len(src))
           /\ \A i \in 1..Len(src) : parses(i) =>
                 /\ dst[at(i)].date = src[i].date
                 /\ dst[at(i)].duration =
                       minutes(src[i].e) - minutes(src[i].s)
                       + (IF minutes(src[i].e) < minutes(src[i].s) THEN 1440 ELSE 0)
                 /\ dst[at(i)].duration >= 0
                 /\ dst[at(i)].duration < 1440
           /\ gas.total = sum[Len(dst)]
\* the batch copied an event that ends on the next day and left out the
\* confirmation row
C36_Witness ==
    /\ gas # <<>>
    /\ gas.by = "runMonthlyBatch"
    /\ Len(gas.dst) = 2
    /\ Len(gas.src) = 3
    /\ gas.src[3].text = "OK"
    /\ gas.dst[1].s = <<23, 30>> /\ gas.dst[1].e = <<1, 0>>
    /\ gas.dst[1].duration = 90
    /\ gas.total > 90


====
